---- MODULE Spec2Model ----
(***************************************************************************)
(* Model of the automation-run execution pipeline of the StackBill         *)
(* deployment center: backend/services/playbookService.js (output parser,  *)
(* credential extractor, subprocess supervision),                          *)
(* backend/controllers/playbookController.js (streaming and standard       *)
(* request handlers) and backend/services/inventoryService.js (ephemeral   *)
(* inventory and key files).                                               *)
(*                                                                         *)
(* Text is modelled as a sequence of one-character strings, so that        *)
(* splitting, trimming and the regular expressions of the source are       *)
(* computed character by character.                                        *)
(***************************************************************************)
EXTENDS Integers, Sequences, FiniteSets, TLC

(***************************************************************************)
(* String primitives of JavaScript used by the source.                     *)
(***************************************************************************)
UpperLetters == <<"A", "B", "C", "D", "E", "F", "G", "H", "I", "J", "K", "L", "M", "N", "O", "P", "Q", "R", "S", "T", "U", "V", "W", "X", "Y", "Z">>
LowerLetters == <<"a", "b", "c", "d", "e", "f", "g", "h", "i", "j", "k", "l", "m", "n", "o", "p", "q", "r", "s", "t", "u", "v", "w", "x", "y", "z">>
Digits == {"0", "1", "2", "3", "4", "5", "6", "7", "8", "9"}

\* \s of the regular expressions and the characters String.trim removes
IsSpace(c) == c \in {" ", "\t", "\n"}

LowerChar(c) ==
  IF \E i \in 1..26 : UpperLetters[i] = c
  THEN LowerLetters[CHOOSE i \in 1..26 : UpperLetters[i] = c]
  ELSE c

\* String.prototype.toLowerCase
toLowerCase(s) == [i \in 1..Len(s) |-> LowerChar(s[i])]

\* s.slice(n)
Drop(s, n) == SubSeq(s, n + 1, Len(s))

\* s.startsWith(p)
startsWith(s, p) == Len(s) >= Len(p) /\ SubSeq(s, 1, Len(p)) = p

\* p matches at the start of s ignoring case (a literal under the /i flag)
startsWithIgnoreCase(s, p) ==
  Len(s) >= Len(p) /\ toLowerCase(SubSeq(s, 1, Len(p))) = toLowerCase(p)

RECURSIVE trimStart(_)
trimStart(s) == IF s # <<>> /\ IsSpace(Head(s)) THEN trimStart(Tail(s)) ELSE s

RECURSIVE trimEnd(_)
trimEnd(s) ==
  IF s # <<>> /\ IsSpace(s[Len(s)]) THEN trimEnd(SubSeq(s, 1, Len(s) - 1)) ELSE s

\* String.prototype.trim
trim(s) == trimEnd(trimStart(s))

\* String.prototype.split with a one-character separator: every piece,
\* the empty ones included
RECURSIVE split(_, _)
split(s, sep) ==
  IF \E i \in 1..Len(s) : s[i] = sep
  THEN LET i == CHOOSE i \in 1..Len(s) : s[i] = sep /\ \A j \in 1..(i - 1) : s[j] # sep
       IN  <<SubSeq(s, 1, i - 1)>> \o split(Drop(s, i), sep)
  ELSE <<s>>

\* the concatenation of a sequence of sequences
RECURSIVE Flatten(_)
Flatten(ss) == IF ss = <<>> THEN <<>> ELSE Head(ss) \o Flatten(Tail(ss))

(***************************************************************************)
(* Literals of the source.                                                 *)
(***************************************************************************)
MYSQL == <<"m", "y", "s", "q", "l">>
MONGODB == <<"m", "o", "n", "g", "o", "d", "b">>
RABBITMQ == <<"r", "a", "b", "b", "i", "t", "m", "q">>
NFS == <<"n", "f", "s">>
KUBERNETES == <<"k", "u", "b", "e", "r", "n", "e", "t", "e", "s">>
\* a null currentService: as a property key JavaScript reads it as "null"
NULL == <<"n", "u", "l", "l">>

USERNAME == <<"u", "s", "e", "r", "n", "a", "m", "e">>
PASSWORD == <<"p", "a", "s", "s", "w", "o", "r", "d">>
PATH == <<"p", "a", "t", "h">>

CREDENTIALS_MARKER == <<"C", "R", "E", "D", "E", "N", "T", "I", "A", "L", "S", "|">>
MYSQL_USER == <<"M", "y", "S", "Q", "L", " ", "u", "s", "e", "r", ":">>
MYSQL_PASSWORD == <<"M", "y", "S", "Q", "L", " ", "p", "a", "s", "s", "w", "o", "r", "d", ":">>
MONGODB_USER == <<"M", "o", "n", "g", "o", "D", "B", " ", "a", "d", "m", "i", "n", " ", "u", "s", "e", "r", ":">>
MONGODB_PASSWORD == <<"M", "o", "n", "g", "o", "D", "B", " ", "a", "d", "m", "i", "n", " ", "p", "a", "s", "s", "w", "o", "r", "d", ":">>
MONGODB_PATH == <<"M", "o", "n", "g", "o", "D", "B", " ", "c", "r", "e", "d", "e", "n", "t", "i", "a", "l", "s", " ", "s", "t", "o", "r", "e", "d", " ", "i", "n", ":">>
RABBITMQ_USER == <<"R", "a", "b", "b", "i", "t", "M", "Q", " ", "U", "s", "e", "r", "n", "a", "m", "e", ":">>
RABBITMQ_PASSWORD == <<"R", "a", "b", "b", "i", "t", "M", "Q", " ", "P", "a", "s", "s", "w", "o", "r", "d", ":">>

(***************************************************************************)
(* CredentialSet: a map service -> (key -> value), all of them text.        *)
(***************************************************************************)
EmptyMap == [k \in {} |-> <<>>]

\* obj[k] = v
Put(obj, k, v) == [x \in (DOMAIN obj) \cup {k} |-> IF x = k THEN v ELSE obj[x]]

\* { ...a, ...b }
Spread(a, b) == [x \in (DOMAIN a) \cup (DOMAIN b) |-> IF x \in DOMAIN b THEN b[x] ELSE a[x]]

\* if (!credentials[svc]) credentials[svc] = {}
EnsureService(credentials, svc) ==
  IF svc \in DOMAIN credentials THEN credentials ELSE Put(credentials, svc, EmptyMap)

\* credentials[svc][key] = value
SetCredential(credentials, svc, key, value) ==
  Put(credentials, svc, Put(credentials[svc], key, value))

(***************************************************************************)
(* parseCredentials.  CredentialWrites(line) lists, in order, what one     *)
(* iteration of its loop does to the credentials object: the creation of a *)
(* service entry (op "create") and the assignments (op "set").             *)
(***************************************************************************)
CreateOp(svc) == [op |-> "create", svc |-> svc, key |-> <<>>, value |-> <<>>]
SetOp(svc, key, value) == [op |-> "set", svc |-> svc, key |-> key, value |-> value]

\* const [k, v] = segment.split('='); if (k && v) credentials[svc][k.trim()] = v.trim()
SegmentWrites(svc, segment) ==
  LET kv == split(segment, "=")
  IN  IF Len(kv) >= 2 /\ kv[1] # <<>> /\ kv[2] # <<>>
      THEN <<SetOp(svc, trim(kv[1]), trim(kv[2]))>>
      ELSE <<>>

\* trimmed.match(/^<label>\s*(.+)$/i): match[1].trim(), or <<>> without a match
LabelledValue(trimmed, label) ==
  IF startsWithIgnoreCase(trimmed, label)
  THEN trim(trimStart(Drop(trimmed, Len(label))))
  ELSE <<>>

HumanWrites(trimmed, label, svc, key) ==
  <<CreateOp(svc), SetOp(svc, key, LabelledValue(trimmed, label))>>

CredentialWrites(line) ==
  LET trimmed == trim(line)
  IN  IF startsWith(trimmed, CREDENTIALS_MARKER)
      THEN LET parts == split(trimmed, "|")
               svc == toLowerCase(parts[2])
           IN  IF svc # <<>>
               THEN <<CreateOp(svc)>>
                      \o Flatten([i \in 1..(Len(parts) - 2) |-> SegmentWrites(svc, parts[i + 2])])
               ELSE <<>>
      ELSE IF LabelledValue(trimmed, MYSQL_USER) # <<>>
           THEN HumanWrites(trimmed, MYSQL_USER, MYSQL, USERNAME)
      ELSE IF LabelledValue(trimmed, MYSQL_PASSWORD) # <<>>
           THEN HumanWrites(trimmed, MYSQL_PASSWORD, MYSQL, PASSWORD)
      ELSE IF LabelledValue(trimmed, MONGODB_USER) # <<>>
           THEN HumanWrites(trimmed, MONGODB_USER, MONGODB, USERNAME)
      ELSE IF LabelledValue(trimmed, MONGODB_PASSWORD) # <<>>
           THEN HumanWrites(trimmed, MONGODB_PASSWORD, MONGODB, PASSWORD)
      ELSE IF LabelledValue(trimmed, MONGODB_PATH) # <<>>
           THEN HumanWrites(trimmed, MONGODB_PATH, MONGODB, PATH)
      ELSE IF LabelledValue(trimmed, RABBITMQ_USER) # <<>>
           THEN HumanWrites(trimmed, RABBITMQ_USER, RABBITMQ, USERNAME)
      ELSE IF LabelledValue(trimmed, RABBITMQ_PASSWORD) # <<>>
           THEN HumanWrites(trimmed, RABBITMQ_PASSWORD, RABBITMQ, PASSWORD)
      ELSE <<>>

\* every write of parseCredentials(text, ...): text.split('\n'), line by line
TextWrites(text) ==
  LET lines == split(text, "\n")
  IN  Flatten([i \in 1..Len(lines) |-> CredentialWrites(lines[i])])

ApplyWrite(credentials, w) ==
  IF w.op = "create"
  THEN EnsureService(credentials, w.svc)
  ELSE SetCredential(credentials, w.svc, w.key, w.value)

RECURSIVE ApplyWrites(_, _)
ApplyWrites(credentials, ws) ==
  IF ws = <<>> THEN credentials
  ELSE ApplyWrites(ApplyWrite(credentials, Head(ws)), Tail(ws))

\* parseCredentials(text, service, credentials): the credentials object after the call
parseCredentials(text, service, credentials) == ApplyWrites(credentials, TextWrites(text))

(***************************************************************************)
(* parseAnsibleOutput.  A JavaScript null (no match, no event, no          *)
(* credentialUpdate) is the empty tuple.                                   *)
(***************************************************************************)
Null == <<>>

OK == <<"o", "k">>
CHANGED == <<"c", "h", "a", "n", "g", "e", "d">>
FATAL == <<"f", "a", "t", "a", "l">>
SKIPPING == <<"s", "k", "i", "p", "p", "i", "n", "g">>
FAILED == <<"f", "a", "i", "l", "e", "d">>
UNREACHABLE == <<"u", "n", "r", "e", "a", "c", "h", "a", "b", "l", "e">>
TASK == <<"T", "A", "S", "K">>
PLAY == <<"P", "L", "A", "Y">>
ARROW == <<"=", ">">>
JSON_MSG_OPEN == <<"{", "\"", "m", "s", "g", "\"", ":">>

\* (.+?)\] at the start of s: the index of the first "]" that leaves the
\* group at least one character, 0 when there is none
LazyBracket(s) ==
  IF \E j \in 2..Len(s) : s[j] = "]"
  THEN CHOOSE j \in 2..Len(s) : s[j] = "]" /\ \A i \in 2..(j - 1) : s[i] # "]"
  ELSE 0

\* line.match(/^(ok|changed|fatal|skipping):\s*\[(.+?)\]\s*(.*)/)
TaskResultMatch(line) ==
  LET kws == {k \in {OK, CHANGED, FATAL, SKIPPING} : startsWith(line, k \o <<":">>)}
  IN  IF kws = {} THEN Null
      ELSE LET status == CHOOSE k \in kws : TRUE
               afterColon == trimStart(Drop(line, Len(status) + 1))
           IN  IF afterColon = <<>> \/ Head(afterColon) # "[" THEN Null
               ELSE LET inner == Tail(afterColon)
                        j == LazyBracket(inner)
                    IN  IF j = 0 THEN Null
                        ELSE [status |-> status,
                              host |-> SubSeq(inner, 1, j - 1),
                              message |-> trimStart(Drop(inner, j))]

\* the trimmedMessage of a task result: message.trim(), less a leading "=>"
TrimmedMessage(message) ==
  LET t == trim(message)
  IN  IF startsWith(t, ARROW) THEN trimStart(Drop(t, 2)) ELSE t

\* JSON.parse(trimmedMessage).msg as a list of strings, for the documents
\* {"msg": "<text>"} whose text holds no quote and no backslash; the empty
\* list for any other text (a parse error, or a document the model does not
\* draw)
JsonMsgs(text) ==
  IF ~startsWith(text, JSON_MSG_OPEN) THEN <<>>
  ELSE LET v == trimStart(Drop(text, Len(JSON_MSG_OPEN)))
       IN  IF Len(v) < 3 \/ Head(v) # "\"" \/ v[Len(v)] # "}" THEN <<>>
           ELSE LET str == trimEnd(SubSeq(v, 2, Len(v) - 1))
                IN  IF str = <<>> \/ str[Len(str)] # "\"" THEN <<>>
                    ELSE LET body == SubSeq(str, 1, Len(str) - 1)
                         IN  IF \E i \in 1..Len(body) : body[i] \in {"\"", "\\", "\n", "\t"}
                             THEN <<>>
                             ELSE <<body>>

\* the writes parseAnsibleOutput makes for a task-result line: those of the
\* trimmed message, then those of each msg of a JSON message
TaskResultWrites(line) ==
  LET m == TaskResultMatch(line)
  IN  IF m = Null THEN <<>>
      ELSE LET trimmedMessage == TrimmedMessage(m.message)
               msgs == IF startsWith(trimmedMessage, <<"{">>) THEN JsonMsgs(trimmedMessage) ELSE <<>>
           IN  TextWrites(trimmedMessage)
                 \o Flatten([i \in 1..Len(msgs) |-> TextWrites(msgs[i])])

\* the name of the first match of /<marker>\s+\[(.+?)\]/ that starts at
\* index i of s, <<>> when the expression does not match there
BracketedAt(s, marker, i) ==
  LET rest == Drop(s, i - 1)
  IN  IF ~startsWith(rest, marker) THEN <<>>
      ELSE LET a == Drop(rest, Len(marker))
               b == trimStart(a)
           IN  IF Len(b) = Len(a) \/ b = <<>> \/ Head(b) # "[" THEN <<>>
               ELSE LET j == LazyBracket(Tail(b))
                    IN  IF j = 0 THEN <<>> ELSE SubSeq(Tail(b), 1, j - 1)

\* line.match(/<marker>\s+\[(.+?)\]/)[1] of the leftmost match, <<>> without one
Bracketed(s, marker) ==
  IF \E i \in 1..Len(s) : BracketedAt(s, marker, i) # <<>>
  THEN BracketedAt(s, marker,
         CHOOSE i \in 1..Len(s) : /\ BracketedAt(s, marker, i) # <<>>
                                  /\ \A j \in 1..(i - 1) : BracketedAt(s, marker, j) = <<>>)
  ELSE <<>>

RECURSIVE DigitRun(_)
DigitRun(s) == IF s # <<>> /\ Head(s) \in Digits THEN <<Head(s)>> \o DigitRun(Tail(s)) ELSE <<>>

\* /(ok|changed|failed|unreachable)=(\d+)/ matched at index i of s
StatusAt(s, i) ==
  LET rest == Drop(s, i - 1)
      kws == {k \in {OK, CHANGED, FAILED, UNREACHABLE} :
                /\ startsWith(rest, k \o <<"=">>)
                /\ DigitRun(Drop(rest, Len(k) + 1)) # <<>>}
  IN  IF kws = {} THEN Null
      ELSE LET k == CHOOSE k \in kws : TRUE
           IN  [status |-> k, count |-> DigitRun(Drop(rest, Len(k) + 1))]

\* line.match(/(ok|changed|failed|unreachable)=(\d+)/): the leftmost match
StatusMatch(s) ==
  IF \E i \in 1..Len(s) : StatusAt(s, i) # Null
  THEN StatusAt(s, CHOOSE i \in 1..Len(s) : /\ StatusAt(s, i) # Null
                                           /\ \A j \in 1..(i - 1) : StatusAt(s, j) = Null)
  ELSE Null

\* faulty variant: the summary counter rule is tried before the markers
parseAnsibleOutputSummaryFirst(line, currentTask, credentials, service) ==
  LET taskResultMatch == TaskResultMatch(line)
  IN  IF taskResultMatch # Null
      THEN LET after == ApplyWrites(credentials, TaskResultWrites(line))
           IN  [parsed |-> [type |-> "task_result",
                            status |-> taskResultMatch.status,
                            host |-> taskResultMatch.host,
                            task |-> currentTask,
                            message |-> TrimmedMessage(taskResultMatch.message),
                            line |-> line,
                            credentialUpdate |->
                              IF service \in DOMAIN after
                              THEN [service |-> service, data |-> after[service]]
                              ELSE Null],
                credentials |-> after]
      ELSE IF StatusMatch(line) # Null
      THEN [parsed |-> [type |-> "status", status |-> StatusMatch(line).status,
                        count |-> StatusMatch(line).count, line |-> line],
            credentials |-> credentials]
      ELSE IF Bracketed(line, TASK) # <<>>
      THEN [parsed |-> [type |-> "task", task |-> Bracketed(line, TASK), line |-> line],
            credentials |-> credentials]
      ELSE IF Bracketed(line, PLAY) # <<>>
      THEN [parsed |-> [type |-> "play", play |-> Bracketed(line, PLAY), line |-> line],
            credentials |-> credentials]
      ELSE [parsed |-> Null, credentials |-> credentials]

\* parseAnsibleOutput(line, currentTask, credentials, service): the event
\* returned (Null for none) and the credentials object after the call
parseAnsibleOutput(line, currentTask, credentials, service) ==
  LET taskResultMatch == TaskResultMatch(line)
  IN  IF taskResultMatch # Null
      THEN LET after == ApplyWrites(credentials, TaskResultWrites(line))
           IN  [parsed |-> [type |-> "task_result",
                            status |-> taskResultMatch.status,
                            host |-> taskResultMatch.host,
                            task |-> currentTask,
                            message |-> TrimmedMessage(taskResultMatch.message),
                            line |-> line,
                            credentialUpdate |->
                              IF service \in DOMAIN after
                              THEN [service |-> service, data |-> after[service]]
                              ELSE Null],
                credentials |-> after]
      ELSE IF Bracketed(line, TASK) # <<>>
      THEN [parsed |-> [type |-> "task", task |-> Bracketed(line, TASK), line |-> line],
            credentials |-> credentials]
      ELSE IF Bracketed(line, PLAY) # <<>>
      THEN [parsed |-> [type |-> "play", play |-> Bracketed(line, PLAY), line |-> line],
            credentials |-> credentials]
      ELSE IF StatusMatch(line) # Null
      THEN [parsed |-> [type |-> "status", status |-> StatusMatch(line).status,
                        count |-> StatusMatch(line).count, line |-> line],
            credentials |-> credentials]
      ELSE [parsed |-> Null, credentials |-> credentials]

(***************************************************************************)
(* config.credentialDefaults and the service of a playbook type.           *)
(***************************************************************************)
MYSQL_DEFAULT_PATH == <<"/", "t", "m", "p", "/", "m", "y", "s", "q", "l", "_", "c", "r", "e", "d", "e", "n", "t", "i", "a", "l", "s", ".", "t", "x", "t">>
MONGODB_DEFAULT_PATH == <<"/", "t", "m", "p", "/", "m", "o", "n", "g", "o", "d", "b", "_", "c", "r", "e", "d", "e", "n", "t", "i", "a", "l", "s", ".", "t", "x", "t">>

credentialDefaults ==
  (MYSQL :> (PATH :> MYSQL_DEFAULT_PATH)) @@ (MONGODB :> (PATH :> MONGODB_DEFAULT_PATH))

\* currentService: the playbook type for mysql, mongodb and rabbitmq, else null
currentService(type) == IF type \in {MYSQL, MONGODB, RABBITMQ} THEN type ELSE NULL

\* if (currentService && config.credentialDefaults[currentService])
HasDefaults(service) == service # NULL /\ service \in DOMAIN credentialDefaults

\* the credentials object once executePlaybook has added the default paths
InitialCredentials(service) ==
  IF HasDefaults(service) THEN Put(EmptyMap, service, credentialDefaults[service]) ELSE EmptyMap

\* faulty variant: the merge with its operands swapped, so that the default wins
ApplyDefaultsSwapped(credentials, service) ==
  IF HasDefaults(service)
  THEN Put(credentials, service,
           Spread(IF service \in DOMAIN credentials THEN credentials[service] ELSE EmptyMap,
                  credentialDefaults[service]))
  ELSE credentials

\* the close handler's merge: { ...defaults, ...(credentials[service] || {}) }
ApplyDefaults(credentials, service) ==
  IF HasDefaults(service)
  THEN Put(credentials, service,
           Spread(credentialDefaults[service],
                  IF service \in DOMAIN credentials THEN credentials[service] ELSE EmptyMap))
  ELSE credentials

(***************************************************************************)
(* The stdout 'data' handler of executePlaybook, on the handler's state    *)
(* h = [currentTask, credentials, output]: output lists the events passed  *)
(* to onOutput.  onOutput is TRUE when a callback was supplied.            *)
(***************************************************************************)
HandleLine(h, line, service, onOutput) ==
  IF trim(line) # <<>> /\ onOutput
  THEN LET r == parseAnsibleOutput(line, h.currentTask, h.credentials, service)
       IN  IF r.parsed # Null
           THEN [currentTask |-> IF r.parsed.type = "task" THEN r.parsed.task ELSE h.currentTask,
                 credentials |-> r.credentials,
                 output |-> Append(h.output, r.parsed)]
           ELSE [h EXCEPT !.credentials = r.credentials]
  ELSE h

RECURSIVE HandleLines(_, _, _, _)
HandleLines(h, lines, service, onOutput) ==
  IF lines = <<>> THEN h
  ELSE HandleLines(HandleLine(h, Head(lines), service, onOutput), Tail(lines), service, onOutput)

\* text.split('\n').forEach(...)
HandleStdout(h, text, service, onOutput) == HandleLines(h, split(text, "\n"), service, onOutput)

\* the credential writes the handler makes for one chunk
ChunkWrites(text, onOutput) ==
  LET lines == split(text, "\n")
  IN  Flatten([i \in 1..Len(lines) |->
                 IF trim(lines[i]) # <<>> /\ onOutput THEN TaskResultWrites(lines[i]) ELSE <<>>])

(***************************************************************************)
(* The results of executePlaybook.                                         *)
(***************************************************************************)
TASKS_FAILED == <<"One or more tasks failed">>
HOSTS_UNREACHABLE == <<"One or more hosts unreachable">>
SPAWN_ERROR == <<"spawn ENOENT">>
WRITE_ERROR == <<"EACCES: permission denied, open">>

\* the error text of a nonzero exit code
ExitReason(code) ==
  IF code = 2 THEN TASKS_FAILED
  ELSE IF code = 4 THEN HOSTS_UNREACHABLE
  ELSE <<"Process exited with code ", code>>

\* what the close handler settles the promise with
CloseOutcome(code) == IF code = 0 THEN "fulfilled" ELSE "rejected"

\* faulty variant: exit code 2 counted as success
CloseResultPartialOk(code, out, err, creds) ==
  IF code = 0 \/ code = 2
  THEN [success |-> TRUE, stdout |-> out, stderr |-> err, credentials |-> creds]
  ELSE [success |-> FALSE, error |-> ExitReason(code), exitCode |-> code,
        stdout |-> out, stderr |-> err,
        fullOutput |-> out \o <<"\n">> \o err, credentials |-> creds]

\* faulty variant: the rejection of a nonzero exit code without the credentials
CloseResultNoCredentials(code, out, err, creds) ==
  IF code = 0
  THEN [success |-> TRUE, stdout |-> out, stderr |-> err, credentials |-> creds]
  ELSE [success |-> FALSE, error |-> ExitReason(code), exitCode |-> code,
        stdout |-> out, stderr |-> err,
        fullOutput |-> out \o <<"\n">> \o err]

CloseResult(code, out, err, creds) ==
  IF code = 0
  THEN [success |-> TRUE, stdout |-> out, stderr |-> err, credentials |-> creds]
  ELSE [success |-> FALSE, error |-> ExitReason(code), exitCode |-> code,
        stdout |-> out, stderr |-> err,
        fullOutput |-> out \o <<"\n">> \o err, credentials |-> creds]

\* what the error handler rejects the promise with
ErrorResult(message, out, err) ==
  [success |-> FALSE, error |-> message, stdout |-> out, stderr |-> err]

(***************************************************************************)
(* inventoryService: the key file of a host.                               *)
(***************************************************************************)
KEY_PREFIX == <<"/", "t", "m", "p", "/", "a", "n", "s", "i", "b", "l", "e", "_", "k", "e", "y", "_">>
PEM == <<".", "p", "e", "m">>

\* `/tmp/ansible_key_${hostname.replace(/\./g, '_')}.pem`
KeyPath(hostname) ==
  KEY_PREFIX \o [i \in 1..Len(hostname) |-> IF hostname[i] = "." THEN "_" ELSE hostname[i]] \o PEM

\* server.ssh_auth_type === 'key' && server.ssh_key
UsesKey(server) == server.ssh_auth_type = "key" /\ server.ssh_key # ""

\* the key paths of the key-authenticated servers, in the order of the list
RECURSIVE KeyPaths(_)
KeyPaths(list) ==
  IF list = <<>> THEN <<>>
  ELSE (IF UsesKey(Head(list)) THEN <<KeyPath(Head(list).hostname)>> ELSE <<>>)
         \o KeyPaths(Tail(list))

\* faulty variant: one inventory file name for every run
InventoryPathFixed(inventoryId) == <<".inventory/", "inventory", ".ini">>

\* path.join(config.paths.inventory, `${inventoryId}.ini`)
InventoryPath(inventoryId) == <<".inventory/", inventoryId, ".ini">>

Range(f) == {f[i] : i \in DOMAIN f}

(***************************************************************************)
(* inventoryService.generateInventoryContent.  The document is the         *)
(* sequence of its lines: a section header, a host line (the sequence of   *)
(* its space-separated clauses), a child group, a variable, a blank line.  *)
(* An absent field of a server is "" (0 for the port): both are falsy.     *)
(***************************************************************************)
ENV_CHECK == <<"e", "n", "v", "-", "c", "h", "e", "c", "k">>
DEFAULT_SSH_PORT == 22
SSH_COMMON_ARGS ==
  "-o StrictHostKeyChecking=no -o UserKnownHostsFile=/dev/null -o PreferredAuthentications=password,keyboard-interactive -o PubkeyAuthentication=no"

Opt(server, field, absent) == IF field \in DOMAIN server THEN server[field] ELSE absent

\* a || b on strings
OrElse(a, b) == IF a = "" THEN b ELSE a

\* server.ssh_port || 22
EffectivePort(server) ==
  IF Opt(server, "ssh_port", 0) = 0 THEN DEFAULT_SSH_PORT ELSE server.ssh_port

formatServerLine(server, name) ==
  LET sshUser == OrElse(Opt(server, "ssh_user", ""), "root")
      sshUserType == OrElse(Opt(server, "ssh_user_type", ""), "root")
      sshAuthType == OrElse(Opt(server, "ssh_auth_type", ""), "password")
      password == Opt(server, "password", "")
      sudoPass == OrElse(Opt(server, "sudo_password", ""), password)
  IN  << <<"name", name>>,
         <<"ansible_host", server.hostname>>,
         <<"ansible_port", EffectivePort(server)>>,
         <<"ansible_user", sshUser>> >>
      \o (IF sshAuthType = "key"
          THEN IF Opt(server, "ssh_key", "") # ""
               THEN << <<"ansible_ssh_private_key_file", KeyPath(server.hostname)>> >>
               ELSE <<>>
          ELSE IF password # "" THEN << <<"ansible_ssh_pass", password>> >> ELSE <<>>)
      \o (IF sshUserType = "sudo"
          THEN << <<"ansible_become", "yes">>, <<"ansible_become_method", "sudo">> >>
               \o (IF sudoPass # "" THEN << <<"ansible_become_pass", sudoPass>> >> ELSE <<>>)
          ELSE <<>>)

SectionLine(name) == [section |-> name]
HostLine(server, name) == [host |-> formatServerLine(server, name)]
ChildLine(name) == [child |-> name]
VarLine(key, value) == [var |-> <<key, value>>]
BlankLine == [blank |-> TRUE]

\* servers.forEach((server, idx) => content += formatServerLine(server, `${prefix}${idx}`) + '\n')
HostLines(list, prefix) == [i \in 1..Len(list) |-> HostLine(list[i], <<prefix, i - 1>>)]

\* a role group, written when it has servers
GroupBlock(name, list, prefix) ==
  IF list = <<>> THEN <<>>
  ELSE <<SectionLine(name)>> \o HostLines(list, prefix) \o <<BlankLine>>

ChildIf(name, list) == IF list = <<>> THEN <<>> ELSE <<ChildLine(name)>>

\* faulty variant: env-check without deduplication
UniqueServersNoDedup(list, seen) == list

\* faulty variant: the role filters without the default of the primary group
WithRoleNoDefault(list, roles) ==
  SelectSeq(list, LAMBDA sv : Opt(sv, "role", "") \in roles \ {""})

\* servers.filter(s => s.role === ...); !s.role is the role ""
WithRole(list, roles) == SelectSeq(list, LAMBDA sv : Opt(sv, "role", "") \in roles)

\* env-check: the servers without those whose hostname:port was seen before
RECURSIVE UniqueServers(_, _)
UniqueServers(list, seen) ==
  IF list = <<>> THEN <<>>
  ELSE LET key == <<Head(list).hostname, EffectivePort(Head(list))>>
       IN  IF key \in seen THEN UniqueServers(Tail(list), seen)
           ELSE <<Head(list)>> \o UniqueServers(Tail(list), seen \cup {key})

\* servers.find(s => s.ansible_user)?.ansible_user || 'ubuntu'
DefaultUser(list) ==
  LET with == SelectSeq(list, LAMBDA sv : Opt(sv, "ansible_user", "") # "")
  IN  IF with = <<>> THEN "ubuntu" ELSE with[1].ansible_user

generateInventoryContent(list, type) ==
  LET primary == WithRole(list, {"primary", ""})
      secondary == WithRole(list, {"secondary"})
      arbiter == WithRole(list, {"arbiter"})
      master == WithRole(list, {"master", "k8s-master"})
      worker == WithRole(list, {"worker", "k8s-worker"})
      groups ==
        IF type = MYSQL
        THEN GroupBlock("primary", primary, "mysql-primary-")
             \o GroupBlock("secondary", secondary, "mysql-secondary-")
             \o <<SectionLine("mysql:children")>>
             \o ChildIf("primary", primary) \o ChildIf("secondary", secondary)
        ELSE IF type = MONGODB
        THEN GroupBlock("primary", primary, "mongo-primary-")
             \o GroupBlock("secondary", secondary, "mongo-secondary-")
             \o GroupBlock("arbiter", arbiter, "mongo-arbiter-")
             \o <<SectionLine("mongo:children")>>
             \o ChildIf("primary", primary) \o ChildIf("secondary", secondary)
             \o ChildIf("arbiter", arbiter)
        ELSE IF type = KUBERNETES
        THEN GroupBlock("master", master, "k8s-master-")
             \o GroupBlock("worker", worker, "k8s-worker-")
             \o <<SectionLine("kubernetes:children")>>
             \o ChildIf("master", master) \o ChildIf("worker", worker)
        ELSE IF type = ENV_CHECK
        THEN <<SectionLine("all")>> \o HostLines(UniqueServers(list, {}), "server-")
        ELSE <<SectionLine("all")>> \o HostLines(list, "server-")
  IN  groups
      \o <<BlankLine, SectionLine("all:vars"),
           VarLine("ansible_user", DefaultUser(list)),
           VarLine("ansible_become", "true"),
           VarLine("ansible_ssh_common_args", SSH_COMMON_ARGS)>>

(***************************************************************************)
(* Inputs: lines the automation engine prints, hosts, request modes.       *)
(***************************************************************************)
LineTask == <<"T", "A", "S", "K", " ", "[", "t", "]", "\n">>
LineOk == <<"o", "k", ":", " ", "[", "h", "]", "\n">>
LinePlay == <<"P", "L", "A", "Y", " ", "[", "p", "]", "\n">>
LineRecap == <<"h", " ", ":", " ", "o", "k", "=", "2", " ", "f", "a", "i", "l", "e", "d", "=", "0", "\n">>
LineJunk == <<"j", "u", "n", "k", "\n">>
LineMarker == <<"o", "k", ":", " ", "[", "h", "]", " ", "=", ">", " ", "C", "R", "E", "D", "E", "N", "T", "I", "A", "L", "S", "|", "m", "y", "s", "q", "l", "|", "u", "s", "e", "r", "n", "a", "m", "e", "=", "u", "|", "p", "a", "s", "s", "w", "o", "r", "d", "=", "p", "\n">>
LineMongoPath == <<"o", "k", ":", " ", "[", "h", "]", " ", "=", ">", " ", "M", "o", "n", "g", "o", "D", "B", " ", "c", "r", "e", "d", "e", "n", "t", "i", "a", "l", "s", " ", "s", "t", "o", "r", "e", "d", " ", "i", "n", ":", " ", "/", "m", "\n">>
LineMysqlUser == <<"c", "h", "a", "n", "g", "e", "d", ":", " ", "[", "h", "]", " ", "=", ">", " ", "M", "y", "S", "Q", "L", " ", "u", "s", "e", "r", ":", " ", "u", "\n">>
LineJsonPassword == <<"o", "k", ":", " ", "[", "h", "]", " ", "=", ">", " ", "{", "\"", "m", "s", "g", "\"", ":", " ", "\"", "M", "y", "S", "Q", "L", " ", "p", "a", "s", "s", "w", "o", "r", "d", ":", " ", "p", "\"", "}", "\n">>
LineRabbitUser == <<"o", "k", ":", " ", "[", "h", "]", " ", "R", "a", "b", "b", "i", "t", "M", "Q", " ", "U", "s", "e", "r", "n", "a", "m", "e", ":", " ", "r", "\n">>
ErrText == <<"E", "!">>

HostH1 == <<"h", "1">>
HostAB == <<"a", ".", "b">>

Server(hostname, auth, key) == [hostname |-> hostname, ssh_auth_type |-> auth, ssh_key |-> key]

\* the servers of a request: validateServers admits only a non-empty list
ServerLists ==
  { <<Server(HostH1, "password", "")>>,
    <<Server(HostH1, "key", "KEY1")>>,
    <<Server(HostH1, "key", "KEY1"), Server(HostAB, "key", "KEY2"), Server(HostAB, "password", "")>> }

\* req.body.variables of an nfs request, complete and with a field missing
NfsVariables == [disk_device |-> "/dev/sdb", client_ip_range |-> "10.0.0.0/24"]
VariableSets == {NfsVariables, [disk_device |-> "/dev/sdb"], EmptyMap}

\* servers with a role; a request without servers; a server without hostname;
\* a server with a login user
RoleServer(hostname, role) ==
  [hostname |-> hostname, ssh_auth_type |-> "password", ssh_key |-> "", role |-> role]

RoleLists ==
  { <<>>,
    <<RoleServer(HostH1, "worker")>>,
    <<RoleServer(HostH1, "worker"), RoleServer(HostAB, "master")>>,
    <<RoleServer(<<>>, "master")>>,
    <<Server(HostH1, "key", "KEY1")>>,
    <<[hostname |-> HostH1, ssh_auth_type |-> "password", ssh_key |-> "", password |-> "pw",
       ssh_user |-> "admin", role |-> "master"]>> }

\* servers for the inventory: roles of every kind, one host under several
\* roles, a port left out and the same port given, a login user
PoolServer(hostname, role, port) ==
  [hostname |-> hostname, ssh_auth_type |-> "password", ssh_key |-> "", password |-> "pw",
   role |-> role, ssh_port |-> port]

ServerPool ==
  { PoolServer(HostH1, "primary", 0),
    PoolServer(HostH1, "secondary", 22),
    PoolServer(HostH1, "arbiter", 2222),
    PoolServer(HostAB, "master", 0),
    PoolServer(HostAB, "k8s-master", 22),
    PoolServer(HostH1, "worker", 0),
    PoolServer(HostAB, "k8s-worker", 2222),
    [hostname |-> HostAB, ssh_auth_type |-> "key", ssh_key |-> "KEY1", ansible_user |-> "admin"] }

\* the longest list of servers of an inventory
MaxServers == 3

InventoryLists == UNION {[1..n -> ServerPool] : n \in 1..MaxServers}

Run(type, out, err) == [playbookType |-> type, content |-> out, errContent |-> err]

\* short runs, for the request's life cycle
ShortRuns ==
  { Run(MYSQL, LineMysqlUser, <<>>),
    Run(NFS, LineTask \o LineOk, ErrText),
    Run(MONGODB, <<>>, <<>>) }

\* runs whose output exercises every rule of the parser and the extractor
OutputRuns ==
  { Run(MYSQL, LineTask \o LineMarker, <<>>),
    Run(MYSQL, LineMysqlUser \o LineJsonPassword, <<>>),
    Run(MYSQL, LineJunk, <<>>),
    Run(MONGODB, LineMongoPath \o LineRecap, <<>>),
    Run(MONGODB, LinePlay \o LineMarker, <<>>),
    Run(RABBITMQ, LineRabbitUser \o LineJunk, ErrText),
    Run(NFS, LinePlay \o LineTask \o LineOk \o LineRecap, <<>>) }

\* runs with a second play and a second task, and with lines on which
\* several rules of the parser match
LinePlay2 == <<"P", "L", "A", "Y", " ", "[", "q", "]", "\n">>
LineTask2 == <<"T", "A", "S", "K", " ", "[", "u", "]", "\n">>
LineResultTask == <<"o", "k", ":", " ", "[", "h", "]", " ", "T", "A", "S", "K", " ", "[", "x", "]", " ", "o", "k", "=", "1", "\n">>
LineTaskPlay == <<"T", "A", "S", "K", " ", "[", "t", "]", " ", "P", "L", "A", "Y", " ", "[", "p", "]", " ", "o", "k", "=", "1", "\n">>
LinePlayStatus == <<"P", "L", "A", "Y", " ", "[", "p", "]", " ", "o", "k", "=", "2", "\n">>

ParserRuns ==
  { Run(NFS, LineTask \o LineOk \o LinePlay2 \o LineOk, <<>>),
    Run(NFS, LineTask \o LineOk \o LineTask2 \o LineOk, ErrText),
    Run(MYSQL, LineResultTask \o LineTaskPlay, <<>>),
    Run(NFS, LinePlayStatus \o LineJunk \o LineRecap, <<>>) }

\* what the environment may make fail in one request
FaultSets == { {}, {"spawn"}, {"write"}, {"unlink"}, {"spawn", "unlink"}, {"keywrite"} }

ExitCodes == {0, 1, 2, 4}
\* the exit code Node reports with 'close' after a failed spawn (-ENOENT)
SpawnFailedCode == -2

\* the most chunks the child's stdout, and its stderr, arrive in
MaxChunks == 2
MaxErrChunks == 1
MaxCleanupCalls == 3

(***************************************************************************)
(* State.                                                                  *)
(***************************************************************************)
VARIABLES
  playbookType,  \* the request: playbook type,
  mode,          \*   "stream" or "standard",
  servers,       \*   req.body.servers
  content,       \* the environment: everything the child prints on stdout,
  errContent,    \*   and on stderr,
  faults,        \*   and what fails
  impl,          \* the server that got the request: "backend" (app.js) or "legacy"
  variables,     \* req.body.variables
  pc,            \* where the request handler stands
  files,         \* the paths that exist on disk
  fsLog,         \* every fs.writeFile and fs.unlink call, in order
  inventoryContent, \* the document written to the inventory file
  child,         \* the subprocess: none, running, spawn_failed, errored, closed
  pos,           \* how much of content, and of errContent, has arrived
  errPos,
  nChunks,
  nErrChunks,
  stdout,        \* executePlaybook's closure: stdout, stderr, currentTask, credentials
  stderr,
  currentTask,
  credentials,
  promise,       \* executePlaybook's promise: none, pending, fulfilled, rejected
  result,        \*   and the value it settled with
  settleCalls,   \*   and the resolve and reject calls made
  written,       \* the response: every res.write payload, in order,
  response,      \*   the status and body of res.json,
  ended,         \*   and whether it has ended
  cleanupCalls,  \* the calls of cleanupInventory
  writes,        \* every credential write the extractor made, in order
  cuts,          \* the offsets of content at which a chunk ended
  exitCode,      \* <<code>> once the child has exited with code
  extractInput,  \* a service, a username and a password for the extractor,
  fromMarker,    \*   the CredentialSet parsed from their marker line,
  fromReadable,  \*   and from their human-readable lines,
  extracted,     \*   once both have been parsed
  runPc,         \* two concurrent requests: where each one stands,
  runServers,    \*   its servers,
  store,         \*   the files on disk with their content,
  hazards,       \*   and what one request did to a key file in use by the other
  db,            \* the session database: its tables,
  now,           \*   the value of datetime('now'),
  dbCall,        \*   and the last call made on it, with the tables it found
  closeCase,     \* an exit of the child handed to both implementations,
  closed         \*   and what each implementation settled its promise with

inputs == <<playbookType, mode, servers, content, errContent, faults, impl, variables>>
closure == <<stdout, stderr, currentTask, credentials>>
stream == <<pos, errPos, nChunks, nErrChunks>>
settled == <<promise, result, settleCalls>>
disk == <<files, fsLog, inventoryContent>>
reply == <<written, response, ended>>

history == <<writes, cuts, exitCode>>
extractor == <<extractInput, fromMarker, fromReadable, extracted>>
concurrent == <<runPc, runServers, store, hazards>>
database == <<db, now, dbCall>>
comparison == <<closeCase, closed>>

\* one request and its run
request == <<inputs, pc, disk, child, stream, closure, settled, reply, cleanupCalls, history>>

\* the components exercised on their own
apart == <<extractor, concurrent, database, comparison>>

vars == <<inputs, pc, disk, child, stream, closure, settled, reply, cleanupCalls, history,
          apart>>

inventoryId == "id1"
\* the closure's currentService, and whether the caller passed onOutput
runService == currentService(playbookType)
hasOnOutput == mode = "stream"

RequestInit(runs, lists, faultSets, extractInputs, impls, variableSets, pc0) ==
  /\ impl \in impls
  /\ variables \in variableSets
  /\ \E r \in runs :
       /\ playbookType = r.playbookType
       /\ content = r.content
       /\ errContent = r.errContent
  /\ mode \in {"stream", "standard"}
  /\ servers \in lists
  /\ faults \in faultSets
  /\ pc = pc0
  /\ files = {}
  /\ fsLog = <<>>
  /\ inventoryContent = <<>>
  /\ child = "none"
  /\ pos = 0 /\ errPos = 0 /\ nChunks = 0 /\ nErrChunks = 0
  /\ stdout = <<>> /\ stderr = <<>> /\ currentTask = <<>>
  /\ credentials = EmptyMap
  /\ promise = "none" /\ result = Null /\ settleCalls = 0
  /\ written = <<>> /\ response = Null /\ ended = FALSE
  /\ cleanupCalls = 0
  /\ writes = <<>> /\ cuts = {} /\ exitCode = Null
  /\ extractInput \in extractInputs
  /\ fromMarker = EmptyMap /\ fromReadable = EmptyMap /\ extracted = FALSE

(***************************************************************************)
(* The session database (database.js).  A table is the sequence of its     *)
(* rows in insertion order; the sessions table maps an id to its row.      *)
(***************************************************************************)
\* encrypt(text): null for a falsy text, otherwise iv:ciphertext under a
\* random iv
encrypt(text, iv) == IF text = <<>> THEN Null ELSE [iv |-> iv, data |-> text]

\* decrypt(encryptedText)
decrypt(encryptedText) == IF encryptedText = Null THEN Null ELSE encryptedText.data

\* the rows of a table that belong, or do not belong, to a session
OfSession(table, sessionId) == SelectSeq(table, LAMBDA row : row.session_id = sessionId)
NotOfSession(table, sessionId) == SelectSeq(table, LAMBDA row : row.session_id # sessionId)

\* the rows of the servers table of one step of one session
OfStep(table, sessionId, stepId) ==
  SelectSeq(table, LAMBDA row : row.session_id = sessionId /\ row.step_id = stepId)

\* the row stmt.run inserts for a server
ServerRow(sessionId, stepId, server, id, iv) ==
  [ id |-> id,
    session_id |-> sessionId,
    step_id |-> stepId,
    hostname |-> server.hostname,
    ssh_port |-> EffectivePort(server),
    ssh_auth_type |-> OrElse(Opt(server, "ssh_auth_type", ""), "password"),
    ssh_user |-> OrElse(Opt(server, "ssh_user", ""), "root"),
    ssh_user_type |-> OrElse(Opt(server, "ssh_user_type", ""), "root"),
    password_encrypted |-> encrypt(Opt(server, "password", <<>>), iv),
    ssh_key_encrypted |-> encrypt(Opt(server, "ssh_key", <<>>), iv),
    sudo_password_encrypted |-> encrypt(Opt(server, "sudo_password", <<>>), iv),
    role |-> server.role,
    purpose |-> server.purpose,
    name |-> server.name ]

\* the insert fails: hostname is NOT NULL, and session_id references sessions
InsertFails(d, sessionId, list) ==
  \E i \in 1..Len(list) : "hostname" \notin DOMAIN list[i] \/ sessionId \notin DOMAIN d.sessions

\* UPDATE sessions SET updated_at = datetime('now') WHERE id = ?
Touch(sessions, sessionId, t) ==
  [s \in DOMAIN sessions |->
     IF s = sessionId THEN [sessions[s] EXCEPT !.updated_at = t] ELSE sessions[s]]

\* faulty variant: the delete covers every step of the session
saveServersWholeSession(d, sessionId, stepId, list, t) ==
  LET kept == NotOfSession(d.servers, sessionId)
      rows == [i \in 1..Len(list) |-> ServerRow(sessionId, stepId, list[i], d.nextId + i - 1, t)]
  IN  IF InsertFails(d, sessionId, list)
      THEN [db |-> [d EXCEPT !.servers = kept], threw |-> TRUE]
      ELSE [db |-> [d EXCEPT !.servers = kept \o rows,
                             !.nextId = d.nextId + Len(list),
                             !.sessions = Touch(d.sessions, sessionId, t)],
            threw |-> FALSE]

\* db.saveServers at time t: the delete is committed before the transaction
\* of the inserts begins, and a failed insert rolls back the inserts only
saveServers(d, sessionId, stepId, list, t) ==
  LET kept == SelectSeq(d.servers,
                        LAMBDA row : ~(row.session_id = sessionId /\ row.step_id = stepId))
      rows == [i \in 1..Len(list) |-> ServerRow(sessionId, stepId, list[i], d.nextId + i - 1, t)]
  IN  IF InsertFails(d, sessionId, list)
      THEN [db |-> [d EXCEPT !.servers = kept], threw |-> TRUE]
      ELSE [db |-> [d EXCEPT !.servers = kept \o rows,
                             !.nextId = d.nextId + Len(list),
                             !.sessions = Touch(d.sessions, sessionId, t)],
            threw |-> FALSE]

\* UPDATE sessions SET status = 'cleaned', updated_at = datetime('now')
Cleaned(sessions, sessionId, t) ==
  [s \in DOMAIN sessions |->
     IF s = sessionId THEN [sessions[s] EXCEPT !.status = "cleaned", !.updated_at = t]
     ELSE sessions[s]]

\* faulty variant: the stored credentials are deleted as well
cleanupSessionWithCredentials(d, sessionId, t) ==
  [d EXCEPT !.servers = NotOfSession(d.servers, sessionId),
            !.ssl_config = NotOfSession(d.ssl_config, sessionId),
            !.nfs_config = NotOfSession(d.nfs_config, sessionId),
            !.lb_config = NotOfSession(d.lb_config, sessionId),
            !.credentials = NotOfSession(d.credentials, sessionId),
            !.sessions = Cleaned(d.sessions, sessionId, t)]

\* db.cleanupSession at time t
cleanupSession(d, sessionId, t) ==
  [d EXCEPT !.servers = NotOfSession(d.servers, sessionId),
            !.ssl_config = NotOfSession(d.ssl_config, sessionId),
            !.nfs_config = NotOfSession(d.nfs_config, sessionId),
            !.lb_config = NotOfSession(d.lb_config, sessionId),
            !.sessions = Cleaned(d.sessions, sessionId, t)]

\* getSession: the servers of a step as the application reads them back
ReadServer(row) ==
  [ hostname |-> row.hostname,
    ssh_port |-> row.ssh_port,
    ssh_auth_type |-> row.ssh_auth_type,
    ssh_user |-> row.ssh_user,
    ssh_user_type |-> row.ssh_user_type,
    password |-> decrypt(row.password_encrypted),
    ssh_key |-> decrypt(row.ssh_key_encrypted),
    sudo_password |-> decrypt(row.sudo_password_encrypted),
    role |-> row.role,
    purpose |-> row.purpose,
    name |-> row.name ]

getServers(d, sessionId, stepId) ==
  LET rows == OfStep(d.servers, sessionId, stepId)
  IN  [i \in 1..Len(rows) |-> ReadServer(rows[i])]

\* a session row, and a database with two sessions that went through some
\* steps
SessionRow(name, status, completedAt) ==
  [ name |-> name, created_at |-> 0, updated_at |-> 0, completed_at |-> completedAt,
    status |-> status, current_step |-> 2, auto_cleanup |-> 0,
    automation_mode |-> "manual", notes |-> "" ]

StoredServer(hostname, role, port, password, key) ==
  [ hostname |-> hostname, ssh_port |-> port, ssh_auth_type |-> IF key = <<>> THEN "" ELSE "key",
    password |-> password, ssh_key |-> key, role |-> role, purpose |-> "", name |-> "" ]

SessionIds == {"s1", "s2", "s9"}
StepIds == {"mysql", "kubernetes"}

SeededDb ==
  [ sessions |-> [s \in {"s1", "s2"} |->
                    IF s = "s1" THEN SessionRow("Deployment Session", "in_progress", 0)
                    ELSE SessionRow("Staging", "completed", 0)],
    servers |-> << ServerRow("s1", "mysql", StoredServer(HostH1, "primary", 0, <<"p", "w">>, <<>>), 1, 0),
                   ServerRow("s1", "kubernetes", StoredServer(HostAB, "master", 22, <<>>, <<"K">>), 2, 0),
                   ServerRow("s2", "mysql", StoredServer(HostH1, "primary", 2222, <<"p", "w">>, <<>>), 3, 0) >>,
    nextId |-> 4,
    completed_steps |-> << [session_id |-> "s1", step_id |-> "mysql"],
                           [session_id |-> "s2", step_id |-> "mysql"] >>,
    credentials |-> << [session_id |-> "s1", service |-> "mysql", key |-> "password",
                        value_encrypted |-> encrypt(<<"s", "1">>, 0)],
                       [session_id |-> "s2", service |-> "mysql", key |-> "password",
                        value_encrypted |-> encrypt(<<"s", "2">>, 0)] >>,
    ssl_config |-> << [session_id |-> "s1", type |-> "generate",
                       private_key_encrypted |-> encrypt(<<"k", "1">>, 0)],
                      [session_id |-> "s2", type |-> "upload",
                       private_key_encrypted |-> encrypt(<<"k", "2">>, 0)] >>,
    nfs_config |-> << [session_id |-> "s1", disk_device |-> "/dev/sdb"] >>,
    lb_config |-> << [session_id |-> "s2", lb_type |-> "haproxy"] >>,
    generated_files |-> << [session_id |-> "s1", step_id |-> "kubernetes", filename |-> "kubeconfig"],
                           [session_id |-> "s2", step_id |-> "mysql", filename |-> "my.cnf"] >> ]

\* the lists a client submits; one holds a server without hostname
SubmittedLists ==
  { <<>>,
    << StoredServer(HostAB, "secondary", 0, <<"p", "2">>, <<>>) >>,
    << StoredServer(HostH1, "master", 2222, <<>>, <<"K", "2">>),
       StoredServer(HostAB, "worker", 0, <<"p", "w">>, <<>>) >>,
    << StoredServer(HostAB, "worker", 0, <<"p", "w">>, <<>>),
       [ssh_port |-> 22, role |-> "worker", purpose |-> "", name |-> ""] >> }

NoCall == [op |-> "none", session |-> "", step |-> "", servers |-> <<>>, before |-> SeededDb,
           threw |-> FALSE]

\* no call on the database
DatabaseIdle ==
  /\ db = SeededDb
  /\ now = 0
  /\ dbCall = NoCall

\* the number of calls made on the database in one behaviour
MaxDbCalls == 2

\* POST /api/sessions/:id/servers/:stepId reaching db.saveServers
SaveServers ==
  /\ now < MaxDbCalls
  /\ \E sessionId \in SessionIds, stepId \in StepIds, list \in SubmittedLists :
       LET r == saveServers(db, sessionId, stepId, list, now + 1)
       IN  /\ db' = r.db
           /\ dbCall' = [op |-> "saveServers", session |-> sessionId, step |-> stepId,
                         servers |-> list, before |-> db, threw |-> r.threw]
  /\ now' = now + 1
  /\ UNCHANGED <<request, extractor, concurrent, comparison>>

\* POST /api/sessions/:id/cleanup reaching db.cleanupSession
CleanupSession ==
  /\ now < MaxDbCalls
  /\ \E sessionId \in SessionIds :
       /\ db' = cleanupSession(db, sessionId, now + 1)
       /\ dbCall' = [op |-> "cleanupSession", session |-> sessionId, step |-> "",
                     servers |-> <<>>, before |-> db, threw |-> FALSE]
  /\ now' = now + 1
  /\ UNCHANGED <<request, extractor, concurrent, comparison>>

(***************************************************************************)
(* The close handlers of the two executePlaybook implementations, the one  *)
(* of backend/services/playbookService.js and the one of the legacy        *)
(* api-server, on the same exit of the child: the exit code, the output    *)
(* collected and the credentials recorded so far.                          *)
(***************************************************************************)
Impls == {"backend", "legacy"}

\* the legacy recordCredential(service, key, value)
recordCredential(creds, service, key, value) ==
  IF service = <<>> \/ key = <<>> THEN creds
  ELSE LET normalizedService == toLowerCase(service)
           entry == IF normalizedService \in DOMAIN creds THEN creds
                    ELSE Put(creds, normalizedService,
                             IF normalizedService \in DOMAIN credentialDefaults
                             THEN credentialDefaults[normalizedService] ELSE EmptyMap)
       IN  SetCredential(entry, normalizedService, key, value)

\* new RegExp(`CREDENTIALS\\|${currentService}\\|([^\\n]+)`, 'g') on one line:
\* match[1] of the leftmost match, or <<>> without a match
MarkerCapture(line, service) ==
  LET marker == CREDENTIALS_MARKER \o service \o <<"|">>
      at == {i \in 1..Len(line) : /\ Len(line) >= i + Len(marker)
                                  /\ SubSeq(line, i, i + Len(marker) - 1) = marker}
  IN  IF at = {} THEN <<>>
      ELSE Drop(line, (CHOOSE i \in at : \A j \in at : i <= j) + Len(marker) - 1)

RECURSIVE RecordAll(_, _)
RecordAll(creds, ws) ==
  IF ws = <<>> THEN creds
  ELSE RecordAll(recordCredential(creds, Head(ws).svc, Head(ws).key, Head(ws).value), Tail(ws))

\* the legacy handler's scan of the whole stdout for marker lines
FallbackScan(creds, out, service) ==
  LET lines == split(out, "\n")
      segments == Flatten([i \in 1..Len(lines) |->
                             IF MarkerCapture(lines[i], service) = <<>> THEN <<>>
                             ELSE split(MarkerCapture(lines[i], service), "|")])
  IN  RecordAll(creds, Flatten([i \in 1..Len(segments) |-> SegmentWrites(service, segments[i])]))

\* if (code === 0 || code === 2)
legacyCloseOutcome(code) == IF code = 0 \/ code = 2 THEN "fulfilled" ELSE "rejected"

\* the legacy close handler: the value the promise is settled with
legacyCloseResult(code, out, err, creds, service) ==
  IF code = 0 \/ code = 2
  THEN LET scanned == IF /\ service # NULL
                         /\ \/ service \notin DOMAIN creds
                            \/ Cardinality(DOMAIN creds[service]) <= 1
                      THEN FallbackScan(creds, out, service)
                      ELSE creds
       IN  [success |-> TRUE, stdout |-> out, stderr |-> err,
            credentials |-> ApplyDefaults(scanned, service)]
  ELSE [success |-> FALSE, error |-> <<"Process exited with code ", code>>, exitCode |-> code,
        stdout |-> out, stderr |-> err,
        fullOutput |-> out \o <<"\n">> \o err,
        credentials |-> ApplyDefaults(creds, service)]

\* what an implementation settles its promise with
CloseOf(i, c) ==
  IF i = "legacy"
  THEN [outcome |-> legacyCloseOutcome(c.code),
        value |-> legacyCloseResult(c.code, c.stdout, c.stderr, c.credentials, c.service)]
  ELSE [outcome |-> CloseOutcome(c.code),
        value |-> CloseResult(c.code, c.stdout, c.stderr, ApplyDefaults(c.credentials, c.service))]

\* the exits compared: an exit code, a playbook type, its output, and the
\* credentials the stdout handler recorded before the child exited
CloseOutputs ==
  { <<>>,
    <<"o", "k", ":", " ", "[", "h", "]", "\n">>,
    <<"x", " ">> \o CREDENTIALS_MARKER \o MYSQL \o <<"|", "u", "s", "e", "r", "=", "r", "|", "p", "=", "1", "\n">> }

CloseCredentials(service) ==
  { EmptyMap,
    InitialCredentials(service),
    (MYSQL :> ((USERNAME :> <<"r">>) @@ (PASSWORD :> <<"1">>))) }

CloseCases ==
  { [code |-> code, service |-> currentService(type), stdout |-> out, stderr |-> <<>>,
     credentials |-> creds] :
      code \in ExitCodes, type \in {MYSQL, RABBITMQ, NFS}, out \in CloseOutputs,
      creds \in UNION {CloseCredentials(currentService(t)) : t \in {MYSQL, RABBITMQ, NFS}} }

\* no exit under comparison
CloseIdle ==
  /\ closeCase = CHOOSE c \in CloseCases : c.code = 0 /\ c.stdout = <<>> /\ c.credentials = EmptyMap
                                           /\ c.service = NULL
  /\ closed = [i \in Impls |-> Null]

\* child.on('close', ...) of implementation i
Close(i) ==
  /\ closed[i] = Null
  /\ closed' = [closed EXCEPT ![i] = CloseOf(i, closeCase)]
  /\ UNCHANGED <<request, extractor, concurrent, database, closeCase>>

Runs == {1, 2}

\* no concurrent requests
ConcurrentIdle ==
  /\ runPc = [r \in Runs |-> "idle"]
  /\ runServers = [r \in Runs |-> <<>>]
  /\ store = EmptyMap
  /\ hazards = {}

InitRequest(runs, lists, faultSets, extractInputs, impls, variableSets, pc0) ==
  /\ RequestInit(runs, lists, faultSets, extractInputs, impls, variableSets, pc0)
  /\ ConcurrentIdle
  /\ DatabaseIdle
  /\ CloseIdle

\* a request that passed the route's validation, received by the backend
InitWith(runs, lists, faultSets, extractInputs) ==
  InitRequest(runs, lists, faultSets, extractInputs, {"backend"}, {NfsVariables}, "start")

Init == InitWith(ShortRuns, ServerLists, FaultSets, {Null})

(***************************************************************************)
(* Request validation.  The backend's routes run validation middleware     *)
(* before the handler; the legacy server validates inside its handlers.    *)
(* A validator yields its error message, Null when the request passes.     *)
(***************************************************************************)
SERVERS_REQUIRED == <<"Servers array is required">>
HOSTNAME_REQUIRED == <<"hostname is required">>
NFS_VARIABLES_REQUIRED == <<"Variables disk_device and client_ip_range are required">>
MASTER_REQUIRED == <<"At least one master node is required">>

\* server.role, undefined for a server without one
Role(server) == IF "role" \in DOMAIN server THEN server.role ELSE "undefined"

validateServers(list) ==
  IF list = <<>> THEN SERVERS_REQUIRED
  ELSE IF \E i \in 1..Len(list) : list[i].hostname = <<>>
       THEN <<"Server ", CHOOSE i \in 1..Len(list) :
                           /\ list[i].hostname = <<>>
                           /\ \A j \in 1..(i - 1) : list[j].hostname # <<>>,
              ": ", HOSTNAME_REQUIRED[1]>>
       ELSE Null

validateNfsVariables(vs) ==
  IF "disk_device" \notin DOMAIN vs \/ "client_ip_range" \notin DOMAIN vs
  THEN NFS_VARIABLES_REQUIRED ELSE Null

validateKubernetesMaster(list) ==
  IF \E i \in 1..Len(list) : Role(list[i]) = "master" THEN Null ELSE MASTER_REQUIRED

\* the first error of a chain of validators
RECURSIVE FirstError(_)
FirstError(results) ==
  IF results = <<>> THEN Null
  ELSE IF Head(results) # Null THEN Head(results) ELSE FirstError(Tail(results))

\* faulty variant: every route validates the servers only
BackendRouteServersOnly(type, list, vs) == validateServers(list)

\* routes/playbook.js: validateServers, then the route's own validator
BackendRoute(type, list, vs) ==
  FirstError(<<validateServers(list)>>
             \o (IF type = NFS THEN <<validateNfsVariables(vs)>> ELSE <<>>)
             \o (IF type = KUBERNETES THEN <<validateKubernetesMaster(list)>> ELSE <<>>))

\* the legacy handlers: a streaming request goes to executePlaybookStream,
\* which checks the servers array only; the other checks follow in the
\* non-streaming branch
LegacyRoute(type, list, vs, streaming) ==
  IF list = <<>> THEN SERVERS_REQUIRED
  ELSE IF streaming THEN Null
  ELSE IF type = NFS THEN validateNfsVariables(vs)
  ELSE IF type = KUBERNETES THEN validateKubernetesMaster(list)
  ELSE Null

\* the request arrives: a validation error is answered with status 400
ValidateRequest ==
  /\ pc = "received"
  /\ LET error == IF impl = "backend" THEN BackendRoute(playbookType, servers, variables)
                  ELSE LegacyRoute(playbookType, servers, variables, mode = "stream")
     IN  IF error # Null
         THEN /\ pc' = "done"
              /\ response' = [status |-> 400, body |-> [error |-> error]]
              /\ ended' = TRUE
              /\ UNCHANGED written
         ELSE /\ pc' = "start"
              /\ UNCHANGED reply
  /\ UNCHANGED <<inputs, disk, child, stream, closure, settled, cleanupCalls, history, apart>>

(***************************************************************************)
(* inventoryService.generateInventory: writeSSHKeys, then the inventory    *)
(* file.  A writeFile that fails throws, and nothing after it runs.        *)
(***************************************************************************)
WriteOp(path) == [op |-> "writeFile", path |-> path]
UnlinkOp(path) == [op |-> "unlink", path |-> path]

\* the writeFile calls generateInventory makes, the failing one included
GenerateWrites(list, fs) ==
  LET keys == KeyPaths(list)
  IN  IF "keywrite" \in fs /\ keys # <<>> THEN <<keys[1]>>
      ELSE keys \o <<InventoryPath(inventoryId)>>

\* whether generateInventory throws
GenerateFails(list, fs) ==
  \/ "keywrite" \in fs /\ KeyPaths(list) # <<>>
  \/ "write" \in fs

\* the paths generateInventory creates
GenerateCreates(list, fs) ==
  LET calls == GenerateWrites(list, fs)
  IN  IF GenerateFails(list, fs)
      THEN {calls[i] : i \in 1..(Len(calls) - 1)}
      ELSE Range(calls)

\* const { inventoryId, inventoryPath } = await generateInventory(servers, playbookType)
\* in executePlaybookStream (whose outer catch writes an error event and ends
\* the response) and in executePlaybookStandard (whose rejection asyncHandler
\* hands to errorHandler)
GenerateInventory ==
  /\ pc = "start"
  /\ files' = files \cup GenerateCreates(servers, faults)
  /\ fsLog' = fsLog \o [i \in 1..Len(GenerateWrites(servers, faults)) |->
                          WriteOp(GenerateWrites(servers, faults)[i])]
  /\ inventoryContent' = IF GenerateFails(servers, faults) THEN inventoryContent
                         ELSE generateInventoryContent(servers, playbookType)
  /\ IF GenerateFails(servers, faults)
     THEN /\ pc' = "done"
          /\ ended' = TRUE
          /\ IF mode = "stream"
             THEN /\ written' = Append(written, [type |-> "error", error |-> WRITE_ERROR])
                  /\ UNCHANGED response
             ELSE /\ response' = [status |-> 500, body |-> [error |-> WRITE_ERROR]]
                  /\ UNCHANGED written
     ELSE /\ pc' = "generated"
          /\ UNCHANGED reply
  /\ UNCHANGED <<inputs, child, stream, closure, settled, cleanupCalls, history, apart>>

(***************************************************************************)
(* playbookService.executePlaybook.                                        *)
(***************************************************************************)
\* faulty variant: every resolve and reject call settles the promise anew
SettleEveryCall(outcome, value) ==
  /\ settleCalls' = settleCalls + 1
  /\ promise' = outcome
  /\ result' = value

\* new Promise((resolve, reject) => ...): only the first call settles it
Settle(outcome, value) ==
  /\ settleCalls' = settleCalls + 1
  /\ IF promise = "pending"
     THEN promise' = outcome /\ result' = value
     ELSE UNCHANGED <<promise, result>>

\* the call: the promise is created, the child spawned, the closure initialised
ExecutePlaybook ==
  /\ pc = "generated"
  /\ pc' = "awaiting"
  /\ promise' = "pending"
  /\ child' = IF "spawn" \in faults THEN "spawn_failed" ELSE "running"
  /\ credentials' = InitialCredentials(runService)
  /\ UNCHANGED <<inputs, disk, stream, stdout, stderr, currentTask, result, settleCalls,
                 reply, cleanupCalls, history, apart>>

\* child.stdout.on('data'): the next n characters arrive as one chunk
StdoutData ==
  \E n \in 1..(Len(content) - pos) :
    /\ child = "running"
    /\ nChunks < MaxChunks
    /\ nChunks + 1 = MaxChunks => n = Len(content) - pos
    /\ LET text == SubSeq(content, pos + 1, pos + n)
           h == HandleStdout([currentTask |-> currentTask, credentials |-> credentials,
                              output |-> <<>>],
                             text, runService, hasOnOutput)
       IN  /\ stdout' = stdout \o text
           /\ currentTask' = h.currentTask
           /\ credentials' = h.credentials
           /\ written' = written \o h.output
           /\ writes' = writes \o ChunkWrites(text, hasOnOutput)
    /\ pos' = pos + n
    /\ nChunks' = nChunks + 1
    /\ cuts' = cuts \cup {pos + n}
    /\ UNCHANGED <<inputs, pc, disk, child, errPos, nErrChunks, stderr, settled,
                   response, ended, cleanupCalls, exitCode, apart>>

\* faulty variant: the chunk is forwarded but not retained
StderrDataForwardOnly ==
  \E n \in 1..(Len(errContent) - errPos) :
    /\ child = "running"
    /\ nErrChunks < MaxErrChunks
    /\ nErrChunks + 1 = MaxErrChunks => n = Len(errContent) - errPos
    /\ LET text == SubSeq(errContent, errPos + 1, errPos + n)
       IN  /\ stderr' = stderr
           /\ written' = IF hasOnOutput
                         THEN Append(written, [type |-> "error", line |-> text])
                         ELSE written
    /\ errPos' = errPos + n
    /\ nErrChunks' = nErrChunks + 1
    /\ UNCHANGED <<inputs, pc, disk, child, pos, nChunks, stdout, currentTask, credentials,
                   settled, response, ended, cleanupCalls, history, apart>>

\* child.stderr.on('data')
StderrData ==
  \E n \in 1..(Len(errContent) - errPos) :
    /\ child = "running"
    /\ nErrChunks < MaxErrChunks
    /\ nErrChunks + 1 = MaxErrChunks => n = Len(errContent) - errPos
    /\ LET text == SubSeq(errContent, errPos + 1, errPos + n)
       IN  /\ stderr' = stderr \o text
           /\ written' = IF hasOnOutput
                         THEN Append(written, [type |-> "error", line |-> text])
                         ELSE written
    /\ errPos' = errPos + n
    /\ nErrChunks' = nErrChunks + 1
    /\ UNCHANGED <<inputs, pc, disk, child, pos, nChunks, stdout, currentTask, credentials,
                   settled, response, ended, cleanupCalls, history, apart>>

\* child.on('close'): after the child's streams have ended, or after a
\* failed spawn's 'error'
ChildClose ==
  \E code \in ExitCodes \cup {SpawnFailedCode} :
    /\ \/ /\ child = "running"
          /\ pos = Len(content) /\ errPos = Len(errContent)
          /\ code \in ExitCodes
       \/ /\ child = "errored"
          /\ code = SpawnFailedCode
    /\ child' = "closed"
    /\ credentials' = ApplyDefaults(credentials, runService)
    /\ Settle(CloseOutcome(code), CloseResult(code, stdout, stderr, credentials'))
    /\ exitCode' = <<code>>
    /\ UNCHANGED <<inputs, pc, disk, stream, stdout, stderr, currentTask, reply,
                   cleanupCalls, writes, cuts, apart>>

\* faulty variant: no 'error' handler, the event settles nothing
ChildErrorUnhandled ==
  /\ child = "spawn_failed"
  /\ child' = "errored"
  /\ UNCHANGED <<inputs, pc, disk, stream, closure, settled, reply, cleanupCalls, history,
                 apart>>

\* faulty variant: 'error' is also emitted for a child that goes on running
\* and printing
ChildErrorWhileRunning ==
  /\ child \in {"spawn_failed", "running"}
  /\ promise = "pending"
  /\ child' = IF child = "running" THEN "running" ELSE "errored"
  /\ Settle("rejected", ErrorResult(SPAWN_ERROR, stdout, stderr))
  /\ UNCHANGED <<inputs, pc, disk, stream, closure, reply, cleanupCalls, history, apart>>

\* child.on('error'): the subprocess could not be started
ChildError ==
  /\ child = "spawn_failed"
  /\ child' = "errored"
  /\ Settle("rejected", ErrorResult(SPAWN_ERROR, stdout, stderr))
  /\ UNCHANGED <<inputs, pc, disk, stream, closure, reply, cleanupCalls, history, apart>>

(***************************************************************************)
(* playbookController: what follows `await executePlaybook(...)`.          *)
(***************************************************************************)
\* value.credentials || {}
CredentialsOf(value) == IF "credentials" \in DOMAIN value THEN value.credentials ELSE EmptyMap

\* the 'complete' event of executePlaybookStream's try and catch blocks
CompleteEvent(outcome, value) ==
  IF outcome = "fulfilled"
  THEN [type |-> "complete", success |-> TRUE, credentials |-> CredentialsOf(value),
        stdout |-> value.stdout, stderr |-> value.stderr]
  ELSE [type |-> "complete", success |-> FALSE, error |-> value.error,
        stdout |-> value.stdout, stderr |-> value.stderr,
        credentials |-> CredentialsOf(value)]

\* faulty variant: the catch blocks respond without calling cleanupInventory
ResumeNoCleanupInCatch ==
  /\ pc = "awaiting"
  /\ promise \in {"fulfilled", "rejected"}
  /\ pc' = IF promise = "rejected" THEN "respond" ELSE "cleanup"
  /\ written' = IF mode = "stream" THEN Append(written, CompleteEvent(promise, result)) ELSE written
  /\ UNCHANGED <<inputs, disk, child, stream, closure, settled, response, ended,
                 cleanupCalls, history, apart>>

\* the await resumes: executePlaybookStream sends 'complete'; both handlers
\* then call cleanupInventory
Resume ==
  /\ pc = "awaiting"
  /\ promise \in {"fulfilled", "rejected"}
  /\ pc' = "cleanup"
  /\ written' = IF mode = "stream" THEN Append(written, CompleteEvent(promise, result)) ELSE written
  /\ UNCHANGED <<inputs, disk, child, stream, closure, settled, response, ended,
                 cleanupCalls, history, apart>>

\* the fs.unlink calls of cleanupInventory: the inventory file and, only
\* when that unlink did not throw, every key file
CleanupUnlinks(id, list, inventoryUnlinked) ==
  <<InventoryPath(id)>> \o (IF inventoryUnlinked THEN KeyPaths(list) ELSE <<>>)

\* faulty variant: cleanupInventory without its outer try/catch
cleanupInventoryNoCatch(id, list, fls, fs) ==
  LET unlinked == InventoryPath(id) \in fls /\ "unlink" \notin fs
      calls == CleanupUnlinks(id, list, unlinked)
  IN  [files |-> IF unlinked THEN fls \ Range(calls) ELSE fls,
       calls |-> calls,
       threw |-> ~unlinked]

\* inventoryService.cleanupInventory(inventoryId, servers) on the files fls:
\* fs.unlink of the inventory file throws when the file is gone or cannot be
\* removed; the outer catch logs the error and the function returns
cleanupInventory(id, list, fls, fs) ==
  LET unlinked == InventoryPath(id) \in fls /\ "unlink" \notin fs
      calls == CleanupUnlinks(id, list, unlinked)
  IN  [files |-> IF unlinked THEN fls \ Range(calls) ELSE fls,
       calls |-> calls,
       threw |-> FALSE]

\* await cleanupInventory(inventoryId, servers) in the request handlers; an
\* exception would leave the handler's try and catch blocks ("threw")
CleanupInventory ==
  /\ pc = "cleanup"
  /\ cleanupCalls' = cleanupCalls + 1
  /\ LET c == cleanupInventory(inventoryId, servers, files, faults)
     IN  /\ fsLog' = fsLog \o [i \in 1..Len(c.calls) |-> UnlinkOp(c.calls[i])]
         /\ files' = c.files
         /\ pc' = IF c.threw THEN "threw" ELSE "respond"
  /\ UNCHANGED <<inventoryContent, inputs, child, stream, closure, settled, reply, history, apart>>

\* one more call of cleanupInventory for a request that is done
CleanupAgain ==
  /\ pc = "done"
  /\ ~GenerateFails(servers, faults)
  /\ cleanupCalls < MaxCleanupCalls
  /\ cleanupCalls' = cleanupCalls + 1
  /\ LET c == cleanupInventory(inventoryId, servers, files, faults)
     IN  /\ fsLog' = fsLog \o [i \in 1..Len(c.calls) |-> UnlinkOp(c.calls[i])]
         /\ files' = c.files
         /\ pc' = IF c.threw THEN "threw" ELSE "done"
  /\ UNCHANGED <<inventoryContent, inputs, child, stream, closure, settled, reply, history, apart>>

\* res.end() of executePlaybookStream; res.json(result) and
\* res.status(500).json(error) of executePlaybookStandard
Respond ==
  /\ pc = "respond"
  /\ pc' = "done"
  /\ ended' = TRUE
  /\ response' = IF mode = "stream" THEN response
                 ELSE [status |-> IF promise = "fulfilled" THEN 200 ELSE 500, body |-> result]
  /\ UNCHANGED <<inputs, disk, child, stream, closure, settled, written, cleanupCalls, history, apart>>

(***************************************************************************)
(* The Credential Extractor on its own: parseCredentials on a structured   *)
(* marker line, and on the human-readable lines of the same service.       *)
(***************************************************************************)
USERNAME_SEGMENT == <<"|", "u", "s", "e", "r", "n", "a", "m", "e", "=">>
PASSWORD_SEGMENT == <<"|", "p", "a", "s", "s", "w", "o", "r", "d", "=">>

\* CREDENTIALS|<service>|username=U|password=P
MarkerLine(svc, u, p) == CREDENTIALS_MARKER \o svc \o USERNAME_SEGMENT \o u \o PASSWORD_SEGMENT \o p

UserLabel(svc) ==
  IF svc = MYSQL THEN MYSQL_USER ELSE IF svc = MONGODB THEN MONGODB_USER ELSE RABBITMQ_USER

PasswordLabel(svc) ==
  IF svc = MYSQL THEN MYSQL_PASSWORD
  ELSE IF svc = MONGODB THEN MONGODB_PASSWORD ELSE RABBITMQ_PASSWORD

\* the two human-readable lines: "<label> U" and "<label> P"
ReadableLines(svc, u, p) ==
  UserLabel(svc) \o <<" ">> \o u \o <<"\n">> \o PasswordLabel(svc) \o <<" ">> \o p

ExtractValues ==
  { <<"u">>, <<"p", "1">>, <<"A", "b">>, <<"a", "=", "b">>, <<"x", "=">>, <<"a", "|", "b">> }

ExtractInputs ==
  [service : {MYSQL, MONGODB, RABBITMQ}, username : ExtractValues, password : ExtractValues]

Extract ==
  /\ extractInput # Null
  /\ ~extracted
  /\ extracted' = TRUE
  /\ fromMarker' = parseCredentials(
                     MarkerLine(extractInput.service, extractInput.username, extractInput.password),
                     extractInput.service, EmptyMap)
  /\ fromReadable' = parseCredentials(
                       ReadableLines(extractInput.service, extractInput.username,
                                     extractInput.password),
                       extractInput.service, EmptyMap)
  /\ UNCHANGED <<request, extractInput, concurrent, database, comparison>>

Next ==
  \/ GenerateInventory
  \/ ExecutePlaybook
  \/ StdoutData
  \/ StderrData
  \/ ChildClose
  \/ ChildError
  \/ Resume
  \/ CleanupInventory
  \/ Respond

Spec == Init /\ [][Next]_vars

\* the same request handlers on runs with richer output, without disk faults
InitOutput == InitWith(OutputRuns, {<<Server(HostH1, "key", "KEY1")>>}, {{}, {"spawn"}}, {Null})

SpecOutput == InitOutput /\ [][Next]_vars

\* the same request handlers on the runs that exercise the parser's context
\* and the priority of its rules
InitParser == InitWith(ParserRuns, {<<Server(HostH1, "password", "")>>}, {{}, {"spawn"}}, {Null})

SpecParser == InitParser /\ [][Next]_vars

(***************************************************************************)
(* Two requests served concurrently.  Each one generates its inventory,    *)
(* starts its child, sees it close and cleans up; the steps of the two     *)
(* interleave at every await.                                              *)
(***************************************************************************)
\* crypto.randomBytes(8).toString('hex'): the two requests draw different
\* identifiers
RunInventoryId(r) == IF r = 1 THEN "id1" ELSE "id2"

\* writeSSHKeys on the files st
RECURSIVE writeSSHKeys(_, _)
writeSSHKeys(st, list) ==
  IF list = <<>> THEN st
  ELSE writeSSHKeys(IF UsesKey(Head(list))
                    THEN Put(st, KeyPath(Head(list).hostname), Head(list).ssh_key)
                    ELSE st,
                    Tail(list))

\* the key files a request and a running other request have in common
SharedKeyPaths(r) ==
  {p \in Range(KeyPaths(runServers[r])) :
     \E q \in Runs \ {r} : runPc[q] = "running" /\ p \in Range(KeyPaths(runServers[q]))}

RunGenerate(r) ==
  /\ runPc[r] = "start"
  /\ LET keys == writeSSHKeys(store, runServers[r])
     IN  /\ store' = Put(keys, InventoryPath(RunInventoryId(r)), <<"inventory", r>>)
         /\ hazards' = hazards \cup
                         (IF \E p \in SharedKeyPaths(r) : p \in DOMAIN store /\ keys[p] # store[p]
                          THEN {"overwritten"} ELSE {})
  /\ runPc' = [runPc EXCEPT ![r] = "generated"]
  /\ UNCHANGED <<request, extractor, database, comparison, runServers>>

RunSpawn(r) ==
  /\ runPc[r] = "generated"
  /\ runPc' = [runPc EXCEPT ![r] = "running"]
  /\ UNCHANGED <<request, extractor, database, comparison, runServers, store, hazards>>

RunClose(r) ==
  /\ runPc[r] = "running"
  /\ runPc' = [runPc EXCEPT ![r] = "closed"]
  /\ UNCHANGED <<request, extractor, database, comparison, runServers, store, hazards>>

RunCleanup(r) ==
  /\ runPc[r] = "closed"
  /\ LET c == cleanupInventory(RunInventoryId(r), runServers[r], DOMAIN store, {})
     IN  /\ store' = [p \in c.files |-> store[p]]
         /\ hazards' = hazards \cup
                         (IF \E p \in SharedKeyPaths(r) : p \in DOMAIN store /\ p \notin c.files
                          THEN {"deleted"} ELSE {})
  /\ runPc' = [runPc EXCEPT ![r] = "done"]
  /\ UNCHANGED <<request, extractor, database, comparison, runServers>>

ConcurrentLists ==
  { <<Server(HostH1, "key", "KEY1")>>,
    <<Server(HostH1, "key", "KEY2")>>,
    <<Server(HostAB, "key", "KEY1")>>,
    <<Server(HostH1, "password", "")>>,
    <<Server(HostAB, "key", "KEY2"), Server(HostH1, "key", "KEY1")>>,
    <<Server(HostAB, "key", "KEY1"), Server(<<"a", "_", "b">>, "key", "KEY2")>>,
    <<Server(HostH1, "key", "KEY1"), Server(HostH1, "key", "KEY2")>> }

InitConcurrent ==
  /\ RequestInit({Run(NFS, <<>>, <<>>)}, {<<Server(HostH1, "password", "")>>}, {{}}, {Null},
                 {"backend"}, {NfsVariables}, "done")
  /\ mode = "standard"
  /\ runPc = [r \in Runs |-> "start"]
  /\ runServers \in [Runs -> ConcurrentLists]
  /\ store = EmptyMap
  /\ hazards = {}
  /\ DatabaseIdle
  /\ CloseIdle

NextConcurrent ==
  \E r \in Runs : RunGenerate(r) \/ RunSpawn(r) \/ RunClose(r) \/ RunCleanup(r)

SpecConcurrent == InitConcurrent /\ [][NextConcurrent]_vars

\* requests to the backend, up to the generation of the inventory
InventoryRuns ==
  {Run(type, <<>>, <<>>) : type \in {MYSQL, MONGODB, KUBERNETES, ENV_CHECK, RABBITMQ}}

InitInventory ==
  /\ InitRequest(InventoryRuns, InventoryLists, {{}}, {Null}, {"backend"}, {NfsVariables},
                 "received")
  /\ mode = "standard"

SpecInventory == InitInventory /\ [][ValidateRequest \/ GenerateInventory]_vars

\* requests as they arrive at either server, up to the start of the child
ValidateRuns == {Run(KUBERNETES, <<>>, <<>>), Run(NFS, <<>>, <<>>), Run(MYSQL, <<>>, <<>>)}

InitValidate ==
  InitRequest(ValidateRuns, RoleLists, {{}, {"spawn"}}, {Null}, {"backend", "legacy"},
              VariableSets, "received")

NextValidate == ValidateRequest \/ GenerateInventory \/ ExecutePlaybook

SpecValidate == InitValidate /\ [][NextValidate]_vars

\* the request handlers, and cleanupInventory invoked again afterwards
SpecCleanup == Init /\ [][Next \/ CleanupAgain]_vars

\* calls on the session database
InitDatabase ==
  /\ RequestInit({Run(NFS, <<>>, <<>>)}, {<<Server(HostH1, "password", "")>>}, {{}}, {Null},
                 {"backend"}, {NfsVariables}, "done")
  /\ mode = "standard"
  /\ ConcurrentIdle
  /\ DatabaseIdle
  /\ CloseIdle

NextDatabase == SaveServers \/ CleanupSession

SpecDatabase == InitDatabase /\ [][NextDatabase]_vars

\* one exit of the child, closed by both implementations
InitClose ==
  /\ RequestInit({Run(NFS, <<>>, <<>>)}, {<<Server(HostH1, "password", "")>>}, {{}}, {Null},
                 {"backend"}, {NfsVariables}, "done")
  /\ mode = "standard"
  /\ ConcurrentIdle
  /\ DatabaseIdle
  /\ closeCase \in CloseCases
  /\ closed = [i \in Impls |-> Null]

NextClose == \E i \in Impls : Close(i)

SpecClose == InitClose /\ [][NextClose]_vars

\* the extractor alone
InitExtract ==
  /\ InitWith({Run(NFS, <<>>, <<>>)}, {<<Server(HostH1, "password", "")>>}, {{}}, ExtractInputs)
  /\ mode = "standard"

SpecExtract == InitExtract /\ [][Extract]_vars

(***************************************************************************)
(* Properties.                                                             *)
(***************************************************************************)
\* the child ran and has exited: every chunk has arrived and 'close' was handled
Exited == exitCode # Null /\ "spawn" \notin faults

\* the events the subscriber received for stdout lines
IsProgress(e) == e.type \in {"task_result", "task", "play", "status"}
ProgressEvents == SelectSeq(written, IsProgress)

\* the events of the same content arriving as one chunk
OneChunkEvents ==
  HandleStdout([currentTask |-> <<>>, credentials |-> InitialCredentials(runService),
                output |-> <<>>],
               content, runService, TRUE).output

\* C1: in a streaming run, however the child's stdout was cut into chunks,
\* the subscriber has received, once the child has exited, exactly the
\* progress events of the same content arriving as one chunk.
C1_ChunkingIndependent == (mode = "stream" /\ Exited) => ProgressEvents = OneChunkEvents

\* the fs.unlink calls made on a path
UnlinkCount(path) == Cardinality({i \in 1..Len(fsLog) : fsLog[i] = UnlinkOp(path)})

\* generateInventory returned: the inventory file was created
InventoryCreated == pc # "start" /\ ~GenerateFails(servers, faults)

\* C2: the inventory file a request created gets exactly one delete attempt,
\* by exactly one cleanupInventory call: never more than one, and one once
\* the request is done, whether the run succeeded, exited nonzero or failed
\* to spawn.
C2_OneDeleteAttempt ==
  /\ cleanupCalls <= 1
  /\ UnlinkCount(InventoryPath(inventoryId)) <= 1
  /\ (pc = "done" /\ InventoryCreated) =>
       (cleanupCalls = 1 /\ UnlinkCount(InventoryPath(inventoryId)) = 1)

C2_Witness ==
  /\ pc = "done" /\ "spawn" \in faults /\ promise = "rejected"
  /\ cleanupCalls = 1 /\ UnlinkCount(InventoryPath(inventoryId)) = 1

\* C3: once a request whose inventory was created is done, a deletion has
\* been attempted of the inventory file and of the key file of every
\* key-authenticated server, whatever the inventory unlink's outcome.
C3_KeysAlwaysCleaned ==
  (pc = "done" /\ InventoryCreated) =>
    \A path \in {InventoryPath(inventoryId)} \cup Range(KeyPaths(servers)) :
      UnlinkCount(path) >= 1

CompleteCount == Cardinality({i \in 1..Len(written) : written[i].type = "complete"})

C4_Settled ==
  /\ child \in {"errored", "closed"} => promise \in {"fulfilled", "rejected"}
  /\ CompleteCount <= 1
  /\ (mode = "stream" /\ pc = "done" /\ promise # "none") => CompleteCount = 1

C4_Once ==
  promise \in {"fulfilled", "rejected"} => (promise' = promise /\ result' = result)

\* C4: as soon as the child has emitted 'close' or 'error' the promise of
\* executePlaybook is settled; once settled, neither its state nor its value
\* ever changes, even when the other event follows; and a streaming request
\* that called executePlaybook sends exactly one 'complete' event.
C4_ExactlyOneResult == [](C4_Settled) /\ [][C4_Once]_vars

C4_Witness ==
  /\ settleCalls = 2 /\ mode = "stream" /\ pc = "done" /\ CompleteCount = 1

\* C5: when the child closes with exit code N, the result is a success
\* exactly when N = 0, and a failure's error text is 'One or more tasks
\* failed' for 2, 'One or more hosts unreachable' for 4 and 'Process exited
\* with code N' otherwise.
C5_ExitCodeClassified ==
  Exited =>
    LET code == exitCode[1]
    IN  /\ result.success = (code = 0)
        /\ (promise = "fulfilled") = (code = 0)
        /\ code = 2 => result.error = <<"One or more tasks failed">>
        /\ code = 4 => result.error = <<"One or more hosts unreachable">>
        /\ code \notin {0, 2, 4} => result.error = <<"Process exited with code ", code>>

C5_Witness == Exited /\ exitCode = <<2>> /\ promise = "rejected" /\ result.success = FALSE

\* C6: once the child of a failed spawn has emitted 'error', the promise is
\* rejected (not pending) with success = false, a non-empty error message,
\* empty stdout and stderr, and none of the fields of a run failure
\* (exitCode, credentials); the 'close' that follows changes nothing.
C6_SpawnFailureResult ==
  ("spawn" \in faults /\ child \in {"errored", "closed"}) =>
    /\ promise = "rejected"
    /\ result.success = FALSE
    /\ result.error # <<>>
    /\ result.stdout = <<>> /\ result.stderr = <<>>
    /\ DOMAIN result = {"success", "error", "stdout", "stderr"}

C6_Witness == "spawn" \in faults /\ child = "closed" /\ promise = "rejected" /\ pc = "done"

\* the last write of (svc, key) among ws
HasWrite(ws, svc, key) ==
  \E i \in 1..Len(ws) : ws[i].op = "set" /\ ws[i].svc = svc /\ ws[i].key = key

LastWrite(ws, svc, key) ==
  LET idx == {i \in 1..Len(ws) : ws[i].op = "set" /\ ws[i].svc = svc /\ ws[i].key = key}
  IN  ws[CHOOSE i \in idx : \A j \in idx : j <= i].value

\* what the caller received at the end: the 'complete' event, or the JSON body
Delivered == IF mode = "stream" THEN written[Len(written)] ELSE response.body

\* C7: a request whose run exited with a nonzero code delivers to the caller,
\* in both modes, a failure with the child's complete stdout and stderr and
\* with every credential the extractor wrote during the run.
C7_FailureCarriesOutput ==
  (pc = "done" /\ Exited /\ exitCode # <<0>>) =>
    /\ Delivered.success = FALSE
    /\ Delivered.stdout = content
    /\ Delivered.stderr = errContent
    /\ "credentials" \in DOMAIN Delivered
    /\ \A i \in 1..Len(writes) :
         LET w == writes[i]
         IN  w.op = "set" =>
               /\ w.svc \in DOMAIN Delivered.credentials
               /\ w.key \in DOMAIN Delivered.credentials[w.svc]
               /\ Delivered.credentials[w.svc][w.key] = LastWrite(writes, w.svc, w.key)

C7_Witness ==
  /\ pc = "done" /\ Exited /\ exitCode = <<2>> /\ mode = "stream"
  /\ HasWrite(writes, MYSQL, USERNAME)
  /\ content # <<>>
  /\ Delivered.credentials[MYSQL][USERNAME] = <<"u">>

\* the lines of content, and the offset at which line i starts
ContentLines == split(content, "\n")

RECURSIVE LineStart(_)
LineStart(i) == IF i = 1 THEN 0 ELSE LineStart(i - 1) + Len(ContentLines[i - 1]) + 1

\* line i of content is a task result whose message is the structured marker
\* of the run's service, and a chunk ended inside it
IsSplitMarker(i) ==
  /\ TaskResultMatch(ContentLines[i]) # Null
  /\ startsWith(TrimmedMessage(TaskResultMatch(ContentLines[i]).message),
                CREDENTIALS_MARKER \o runService \o <<"|">>)
  /\ \E c \in cuts : LineStart(i) < c /\ c < LineStart(i) + Len(ContentLines[i])

\* C8: in a streaming run, the key/value pairs of a structured marker line of
\* the run's service that was split across two chunks are in the final
\* CredentialSet once the child has exited.
C8_SplitMarkerRecovered ==
  (mode = "stream" /\ Exited) =>
    \A i \in 1..Len(ContentLines) :
      IsSplitMarker(i) =>
        \A w \in Range(TaskResultWrites(ContentLines[i])) :
          w.op = "set" =>
            /\ w.svc \in DOMAIN result.credentials
            /\ w.key \in DOMAIN result.credentials[w.svc]
            /\ result.credentials[w.svc][w.key] = w.value

\* C9: once the child of a mysql or mongodb run has exited, with any code,
\* the result's CredentialSet has a path for that service: the last path the
\* extractor wrote for it, the configured default when it wrote none.
C9_PathPresent ==
  (Exited /\ runService \in {MYSQL, MONGODB}) =>
    /\ runService \in DOMAIN result.credentials
    /\ PATH \in DOMAIN result.credentials[runService]
    /\ result.credentials[runService][PATH] =
         IF HasWrite(writes, runService, PATH) THEN LastWrite(writes, runService, PATH)
         ELSE IF runService = MYSQL THEN MYSQL_DEFAULT_PATH ELSE MONGODB_DEFAULT_PATH

C9_Witness ==
  /\ Exited /\ runService = MONGODB /\ exitCode = <<1>>
  /\ HasWrite(writes, MONGODB, PATH)
  /\ result.credentials[MONGODB][PATH] = <<"/", "m">>

\* C10: for a service, a username and a password, the marker line
\* CREDENTIALS|<service>|username=U|password=P and the pair of
\* human-readable lines of that service yield the same CredentialSet.
C10_MarkerEqualsReadable == extracted => fromMarker = fromReadable

\* the chunk boundaries in increasing order, and chunk i of content
CutSeq ==
  CHOOSE s \in [1..Cardinality(cuts) -> cuts] : \A i, j \in DOMAIN s : i < j => s[i] < s[j]

ChunkStart(i) == IF i = 1 THEN 0 ELSE CutSeq[i - 1]

\* the pieces between line feeds of the text that arrived at offset start,
\* each with the line of content it is part of
RECURSIVE PieceStart(_, _, _)
PieceStart(pieces, start, i) ==
  IF i = 1 THEN start ELSE PieceStart(pieces, start, i - 1) + Len(pieces[i - 1]) + 1

LineIndexAt(offset) ==
  1 + Cardinality({k \in 1..offset : content[k] = "\n"})

ChunkPieces(i) ==
  LET start == ChunkStart(i)
      pieces == split(SubSeq(content, start + 1, CutSeq[i]), "\n")
  IN  [k \in 1..Len(pieces) |->
         [text |-> pieces[k], lineIndex |-> LineIndexAt(PieceStart(pieces, start, k))]]

\* the pieces that produced an event, in the order of their arrival
YieldsEvent(piece) ==
  /\ trim(piece.text) # <<>>
  /\ parseAnsibleOutput(piece.text, <<>>, EmptyMap, runService).parsed # Null

EventPieces ==
  SelectSeq(Flatten([i \in 1..Cardinality(cuts) |-> ChunkPieces(i)]), YieldsEvent)

\* C11: in a streaming run, once the child has exited, the progress events
\* the subscriber received come from the lines of stdout in the order of the
\* lines, and no line of stdout has given more than one event.
C11_OrderedNoDuplicates ==
  (mode = "stream" /\ Exited) =>
    /\ Len(ProgressEvents) = Len(EventPieces)
    /\ \A k \in 1..Len(EventPieces) : ProgressEvents[k].line = EventPieces[k].text
    /\ \A k \in 1..(Len(EventPieces) - 1) :
         EventPieces[k].lineIndex < EventPieces[k + 1].lineIndex

\* the weaker statement that does hold: the events are in the order of the lines
C11_Ordered ==
  (mode = "stream" /\ Exited) =>
    /\ Len(ProgressEvents) = Len(EventPieces)
    /\ \A k \in 1..Len(EventPieces) : ProgressEvents[k].line = EventPieces[k].text
    /\ \A k \in 1..(Len(EventPieces) - 1) :
         EventPieces[k].lineIndex <= EventPieces[k + 1].lineIndex

\* what the handlers reply for a settled promise
ExpectedReply ==
  IF mode = "stream"
  THEN /\ written # <<>>
       /\ written[Len(written)] = CompleteEvent(promise, result)
  ELSE response = [status |-> IF promise = "fulfilled" THEN 200 ELSE 500, body |-> result]

\* C12: no call of cleanupInventory throws, be it the second or third one
\* for the same run or one that finds the inventory file gone or not
\* removable; and a request that is done has replied with the result of its
\* run, whatever cleanup did.
C12_CleanupNeverThrows ==
  /\ pc # "threw"
  /\ (pc = "done" /\ InventoryCreated) => (ended /\ ExpectedReply)

C12_Witness ==
  /\ pc = "done" /\ cleanupCalls = 2 /\ "unlink" \notin faults
  /\ UnlinkCount(InventoryPath(inventoryId)) = 2
  /\ InventoryPath(inventoryId) \notin files
  /\ promise = "fulfilled" /\ ExpectedReply

\* the requests C13 is about
NoHosts == servers = <<>>
NfsIncomplete ==
  playbookType = NFS /\ ~({"disk_device", "client_ip_range"} \subseteq DOMAIN variables)
NoMaster ==
  playbookType = KUBERNETES /\ \A i \in 1..Len(servers) : Role(servers[i]) # "master"

NothingStarted == fsLog = <<>> /\ files = {} /\ child = "none" /\ promise = "none"

\* C13: for a request without hosts, an nfs request lacking disk_device or
\* client_ip_range, or a kubernetes request without a master, streaming or
\* not, no file is ever written and no child spawned, and the request ends
\* with a status 400 reply.
C13_RejectedBeforeEffects ==
  (NoHosts \/ NfsIncomplete \/ NoMaster) =>
    /\ NothingStarted
    /\ pc \in {"received", "done"}
    /\ pc = "done" => (ended /\ response # Null /\ response.status = 400)

\* the same for the requests the backend's routes receive
C13_BackendRejects == impl = "backend" => C13_RejectedBeforeEffects

\* the requests that have generated their inventory and not yet cleaned up
Active(r) == runPc[r] \in {"generated", "running", "closed"}

\* two requests with a key-authenticated server of the same host address
SameKeyHost(r, q) ==
  \E i \in 1..Len(runServers[r]), j \in 1..Len(runServers[q]) :
    /\ UsesKey(runServers[r][i]) /\ UsesKey(runServers[q][j])
    /\ runServers[r][i].hostname = runServers[q][j].hostname

\* C14: two concurrent requests never use the same inventory file: each
\* request's inventory file is there, with its own content, from its
\* generation to its cleanup.  Two requests with key authentication to the
\* same host address use one key file, and only such requests can overwrite
\* or delete a key file the other one's running child depends on.
C14_KeyFileShared ==
  \A r \in Runs : \A q \in Runs \ {r} :
    /\ InventoryPath(RunInventoryId(r)) # InventoryPath(RunInventoryId(q))
    /\ Active(r) =>
         /\ InventoryPath(RunInventoryId(r)) \in DOMAIN store
         /\ store[InventoryPath(RunInventoryId(r))] = <<"inventory", r>>
    /\ SameKeyHost(r, q) =>
         Range(KeyPaths(runServers[r])) \cap Range(KeyPaths(runServers[q])) # {}
    /\ hazards # {} =>
         Range(KeyPaths(runServers[r])) \cap Range(KeyPaths(runServers[q])) # {}

\* one behaviour in which a request overwrote the key of the other's running
\* child, and a request deleted the key of the other's running child
C14_Witness ==
  /\ hazards = {"overwritten", "deleted"}
  /\ SameKeyHost(1, 2)
  /\ \E r \in Runs : runPc[r] = "running" /\ Range(KeyPaths(runServers[r])) \cap DOMAIN store = {}

\* reading an inventory document: the host lines that follow the header of
\* a group, the child lines that follow the header of an aggregate group
RECURSIVE LinesFrom(_, _, _)
LinesFrom(doc, i, field) ==
  IF i > Len(doc) \/ field \notin DOMAIN doc[i] THEN <<>>
  ELSE <<doc[i][field]>> \o LinesFrom(doc, i + 1, field)

GroupLines(doc, name, field) ==
  LET at == {i \in 1..Len(doc) : doc[i] = [section |-> name]}
  IN  IF at = {} THEN <<>> ELSE LinesFrom(doc, 1 + CHOOSE i \in at : TRUE, field)

\* the (host address, port) of each host line of a group
Address(clauses) == <<clauses[2][2], clauses[3][2]>>
GroupAddresses(doc, name) ==
  LET ls == GroupLines(doc, name, "host") IN [i \in 1..Len(ls) |-> Address(ls[i])]

ServerAddress(sv) ==
  <<sv.hostname, IF "ssh_port" \in DOMAIN sv /\ sv.ssh_port # 0 THEN sv.ssh_port ELSE 22>>

Generated == pc = "generated" /\ inventoryContent # <<>>

\* the first server of each address, in input order
FirstOccurrences ==
  SelectSeq([i \in 1..Len(servers) |-> i],
            LAMBDA i : \A j \in 1..(i - 1) : ServerAddress(servers[j]) # ServerAddress(servers[i]))

\* C15: the all group of an env-check inventory has one host line per
\* distinct (hostname, port) of the servers, port 22 when none is given: the
\* line of the first server with that pair, in input order.  The all group
\* of the other kinds has one host line per server, duplicates included.
C15_EnvCheckDeduplicated ==
  (Generated /\ playbookType \notin {MYSQL, MONGODB, KUBERNETES}) =>
    LET all == GroupAddresses(inventoryContent, "all")
    IN  IF playbookType = ENV_CHECK
        THEN /\ Len(all) = Len(FirstOccurrences)
             /\ \A k \in 1..Len(all) : all[k] = ServerAddress(servers[FirstOccurrences[k]])
             /\ \A k, l \in 1..Len(all) : k # l => all[k] # all[l]
        ELSE /\ Len(all) = Len(servers)
             /\ \A k \in 1..Len(all) : all[k] = ServerAddress(servers[k])

C15_Witness ==
  /\ Generated /\ playbookType = ENV_CHECK
  /\ Len(servers) = 3
  /\ <<Opt(servers[1], "role", ""), Opt(servers[2], "role", ""), Opt(servers[3], "role", "")>>
       = <<"primary", "secondary", "arbiter">>
  /\ Len(GroupAddresses(inventoryContent, "all")) = 2

\* the role groups of a kind, and its aggregate group
RoleGroups(kind) ==
  IF kind = MYSQL THEN <<"primary", "secondary">>
  ELSE IF kind = MONGODB THEN <<"primary", "secondary", "arbiter">>
  ELSE <<"master", "worker">>

Aggregate(kind) ==
  IF kind = MYSQL THEN "mysql:children"
  ELSE IF kind = MONGODB THEN "mongo:children" ELSE "kubernetes:children"

\* the role tags that select a group: as the table gives them,
TableRoles(group) == IF group = "primary" THEN {"primary", ""} ELSE {group}

\* and with the k8s- names the code accepts as well
AliasRoles(group) ==
  IF group \in {"master", "worker"} THEN {group, "k8s-" \o group} ELSE TableRoles(group)

\* the servers a group selects, in input order
Selected(group, Roles(_)) ==
  SelectSeq(servers, LAMBDA sv : (IF "role" \in DOMAIN sv THEN sv.role ELSE "") \in Roles(group))

\* every role group holds the servers it selects, and the aggregate group
\* lists the groups that hold a server
GroupsFollow(Roles(_)) ==
  LET groups == RoleGroups(playbookType)
  IN  /\ \A g \in Range(groups) :
           LET sel == Selected(g, Roles)
           IN  GroupAddresses(inventoryContent, g) = [i \in 1..Len(sel) |-> ServerAddress(sel[i])]
      /\ GroupLines(inventoryContent, Aggregate(playbookType), "child")
           = SelectSeq(groups, LAMBDA g : Selected(g, Roles) # <<>>)

\* C16: in the inventory of a mysql, mongodb or kubernetes run, each role
\* group holds exactly the servers whose role tag selects it (primary: role
\* primary or none; secondary; arbiter; master: role master; worker: role
\* worker), and the aggregate group lists exactly the non-empty role groups.
C16_RoleGroupsPerTable ==
  (Generated /\ playbookType \in {MYSQL, MONGODB, KUBERNETES}) => GroupsFollow(TableRoles)

\* C16 as amended: the same, where master is selected by role master or
\* k8s-master and worker by role worker or k8s-worker.
C16_RoleGroupsWithAliases ==
  (Generated /\ playbookType \in {MYSQL, MONGODB, KUBERNETES}) => GroupsFollow(AliasRoles)

C16_Witness ==
  /\ Generated /\ playbookType = KUBERNETES
  /\ GroupAddresses(inventoryContent, "master") = <<<<HostAB, 22>>, <<HostAB, 22>>>>
  /\ GroupAddresses(inventoryContent, "worker") = <<<<HostH1, 22>>>>
  /\ GroupLines(inventoryContent, "kubernetes:children", "child") = <<"master", "worker">>

\* a submitted server as it is read back: the insert fills in the port, the
\* authentication type and the users that the client left out
Submitted(server) ==
  [ hostname |-> server.hostname,
    ssh_port |-> EffectivePort(server),
    ssh_auth_type |-> OrElse(Opt(server, "ssh_auth_type", ""), "password"),
    ssh_user |-> OrElse(Opt(server, "ssh_user", ""), "root"),
    ssh_user_type |-> OrElse(Opt(server, "ssh_user_type", ""), "root"),
    password |-> Opt(server, "password", <<>>),
    ssh_key |-> Opt(server, "ssh_key", <<>>),
    sudo_password |-> Opt(server, "sudo_password", <<>>),
    role |-> server.role,
    purpose |-> server.purpose,
    name |-> server.name ]

SavedServers == dbCall.op = "saveServers" /\ ~dbCall.threw

\* C17: after db.saveServers(session, step, list) has returned, the servers
\* read back for that session and step are the submitted servers, one per
\* submitted server and in the submitted order, whatever was stored for the
\* step before, and the rows of every other step and of every other
\* session are the rows that were there before the call.
C17_SaveServersReplacesStep ==
  SavedServers =>
    /\ getServers(db, dbCall.session, dbCall.step)
         = [i \in 1..Len(dbCall.servers) |-> Submitted(dbCall.servers[i])]
    /\ \A s \in SessionIds, t \in StepIds :
         <<s, t>> # <<dbCall.session, dbCall.step>>
           => OfStep(db.servers, s, t) = OfStep(dbCall.before.servers, s, t)
    /\ Len(db.servers)
         = Len(dbCall.before.servers)
           - Len(OfStep(dbCall.before.servers, dbCall.session, dbCall.step))
           + Len(dbCall.servers)

\* two servers were saved over a step that held another server, in a
\* session with servers in another step as well
C17_Witness ==
  /\ SavedServers
  /\ Len(dbCall.servers) = 2
  /\ OfStep(dbCall.before.servers, dbCall.session, dbCall.step) # <<>>
  /\ getServers(dbCall.before, dbCall.session, dbCall.step)[1].hostname
       # dbCall.servers[1].hostname
  /\ \E t \in StepIds \ {dbCall.step} : OfStep(db.servers, dbCall.session, t) # <<>>

\* the columns of a session that a cleanup leaves alone
Metadata(session) ==
  [ name |-> session.name, created_at |-> session.created_at,
    completed_at |-> session.completed_at, current_step |-> session.current_step,
    auto_cleanup |-> session.auto_cleanup, automation_mode |-> session.automation_mode,
    notes |-> session.notes ]

CleanedUp == dbCall.op = "cleanupSession"

\* C18: after db.cleanupSession(session) no server row and no SSL
\* configuration of the session is left and the session's status is
\* cleaned, while its name, dates of creation and completion and other
\* metadata, the stored credentials, the completed steps and the generated
\* files are what they were, and so is everything of every other session.
C18_CleanupRemovesSecretsOnly ==
  CleanedUp =>
    LET s == dbCall.session
        before == dbCall.before
    IN  /\ OfSession(db.servers, s) = <<>>
        /\ OfSession(db.ssl_config, s) = <<>>
        /\ DOMAIN db.sessions = DOMAIN before.sessions
        /\ s \in DOMAIN db.sessions =>
             /\ db.sessions[s].status = "cleaned"
             /\ Metadata(db.sessions[s]) = Metadata(before.sessions[s])
        /\ db.credentials = before.credentials
        /\ db.completed_steps = before.completed_steps
        /\ db.generated_files = before.generated_files
        /\ NotOfSession(db.servers, s) = NotOfSession(before.servers, s)
        /\ NotOfSession(db.ssl_config, s) = NotOfSession(before.ssl_config, s)
        /\ \A o \in DOMAIN db.sessions \ {s} : db.sessions[o] = before.sessions[o]

\* a session in progress that had servers, an SSL configuration,
\* credentials, a completed step and a generated file was cleaned
C18_Witness ==
  /\ CleanedUp
  /\ dbCall.session \in DOMAIN db.sessions
  /\ dbCall.before.sessions[dbCall.session].status = "in_progress"
  /\ Len(OfSession(dbCall.before.servers, dbCall.session)) >= 2
  /\ OfSession(dbCall.before.ssl_config, dbCall.session) # <<>>
  /\ OfSession(db.credentials, dbCall.session) # <<>>
  /\ OfSession(db.completed_steps, dbCall.session) # <<>>
  /\ OfSession(db.generated_files, dbCall.session) # <<>>

BothClosed == \A i \in Impls : closed[i] # Null

\* C19: whatever the exit code of the child, the close handler of
\* backend/services/playbookService.js and the close handler of the legacy
\* api-server settle their promises the same way: both resolve, or both
\* reject.
C19_SameVerdict ==
  BothClosed => closed["backend"].outcome = closed["legacy"].outcome

\* the two handlers agree on every exit code but 2
C19_SameVerdictButPartialFailure ==
  BothClosed /\ closeCase.code # 2
    => /\ closed["backend"].outcome = closed["legacy"].outcome
       /\ closed["backend"].value.success = closed["legacy"].value.success

\* s holds p as a substring
Holds(s, p) == \E i \in 1..(Len(s) - Len(p) + 1) : SubSeq(s, i, i + Len(p) - 1) = p

\* the texts of a task result line's remainder in which the extractor found
\* a credential: the remainder itself, and the msg entries of a JSON
\* remainder
MatchedTexts(line) ==
  LET trimmedMessage == TrimmedMessage(TaskResultMatch(line).message)
      msgs == IF startsWith(trimmedMessage, <<"{">>) THEN JsonMsgs(trimmedMessage) ELSE <<>>
  IN  {text \in {trimmedMessage} \cup Range(msgs) : TextWrites(text) # <<>>}

TaskResults == {k \in 1..Len(written) : written[k].type = "task_result"}

\* C20: the message of a task_result event sent to the client holds none of
\* the texts of its line in which the extractor found a credential.
C20_MessageOmitsCredentials ==
  \A k \in TaskResults :
    \A text \in MatchedTexts(written[k].line) : ~Holds(written[k].message, text)

\* the message of a task_result event is the whole remainder of its line,
\* without the leading arrow
C20_MessageIsRemainder ==
  \A k \in TaskResults :
    written[k].message = TrimmedMessage(TaskResultMatch(written[k].line).message)

\* the task or play event that most recently precedes the k-th event sent,
\* or 0
LastMarker(k) ==
  LET marks == {j \in 1..(k - 1) : written[j].type \in {"task", "play"}}
  IN  IF marks = {} THEN 0 ELSE CHOOSE j \in marks : \A i \in marks : i <= j

\* the task event that most recently precedes the k-th event sent, or 0
LastTask(k) ==
  LET marks == {j \in 1..(k - 1) : written[j].type = "task"}
  IN  IF marks = {} THEN 0 ELSE CHOOSE j \in marks : \A i \in marks : i <= j

\* C21: a task_result event carries the name of the task marker that
\* precedes it most recently, and an empty name when a play marker came
\* after that task marker or when no marker came at all: the context ends
\* at the next task or play marker.
C21_TaskContextEndsAtMarker ==
  \A k \in TaskResults :
    written[k].task = IF LastMarker(k) # 0 /\ written[LastMarker(k)].type = "task"
                      THEN written[LastMarker(k)].task ELSE <<>>

\* a task_result event carries the name of the most recent task marker,
\* whatever play markers came in between
C21_TaskOfLastTaskMarker ==
  \A k \in TaskResults :
    written[k].task = IF LastTask(k) # 0 THEN written[LastTask(k)].task ELSE <<>>

\* the error events the subscriber received for stderr chunks
ErrorEvents == SelectSeq(written, LAMBDA e : e.type = "error" /\ "line" \in DOMAIN e)

\* the rules of the parser that match a line
RulesMatching(line) ==
  {rule \in {"task_result", "task", "play", "status"} :
     \/ rule = "task_result" /\ TaskResultMatch(line) # Null
     \/ rule = "task" /\ Bracketed(line, TASK) # <<>>
     \/ rule = "play" /\ Bracketed(line, PLAY) # <<>>
     \/ rule = "status" /\ StatusMatch(line) # Null}

RulePriority == <<"task_result", "task", "play", "status">>

FirstRule(line) ==
  RulePriority[CHOOSE i \in 1..Len(RulePriority) :
                 /\ RulePriority[i] \in RulesMatching(line)
                 /\ \A j \in 1..(i - 1) : RulePriority[j] \notin RulesMatching(line)]

\* the pieces of stdout handed to the parser that some rule matches
ClassifiedPieces ==
  SelectSeq(Flatten([i \in 1..Cardinality(cuts) |-> ChunkPieces(i)]),
            LAMBDA piece : trim(piece.text) # <<>> /\ RulesMatching(piece.text) # {})

\* C23: in a streaming run, once the child has exited, the events sent for
\* stdout are, in order, one event for each line handed to the parser that
\* some rule matches, of the type of the first rule that matches in the
\* order task result, task marker, play marker, summary counter; a line no
\* rule matches gave no event.
C23_FirstMatchingRule ==
  (mode = "stream" /\ Exited) =>
    /\ Len(ProgressEvents) = Len(ClassifiedPieces)
    /\ \A k \in 1..Len(ClassifiedPieces) :
         /\ ProgressEvents[k].line = ClassifiedPieces[k].text
         /\ ProgressEvents[k].type = FirstRule(ClassifiedPieces[k].text)

\* lines were classified on which three rules match, with a task result
\* and with a task marker as the first of them
C23_Witness ==
  /\ mode = "stream" /\ Exited
  /\ \E k \in 1..Len(ProgressEvents) :
       /\ RulesMatching(ProgressEvents[k].line) = {"task_result", "task", "status"}
       /\ ProgressEvents[k].type = "task_result"
  /\ \E k \in 1..Len(ProgressEvents) :
       /\ RulesMatching(ProgressEvents[k].line) = {"task", "play", "status"}
       /\ ProgressEvents[k].type = "task"

\* the host lines of the inventory written, and the authentication clauses
\* of a host line
InventoryHostLines == SelectSeq(inventoryContent, LAMBDA l : "host" \in DOMAIN l)

AuthClauses(line) ==
  SelectSeq(line, LAMBDA clause : clause[1] \in {"ansible_ssh_pass", "ansible_ssh_private_key_file"})

ClauseValue(line, key) == SelectSeq(line, LAMBDA clause : clause[1] = key)[1][2]

\* C24: every host line of the inventory written holds exactly one
\* authentication clause, a password or the path of the key file of the
\* line's host.
C24_ExactlyOneAuthClause ==
  \A k \in 1..Len(InventoryHostLines) :
    LET line == InventoryHostLines[k].host
    IN  /\ Len(AuthClauses(line)) = 1
        /\ AuthClauses(line)[1][1] = "ansible_ssh_private_key_file"
             => AuthClauses(line)[1][2] = KeyPath(ClauseValue(line, "ansible_host"))

\* a host line never holds two authentication clauses, and a key clause
\* holds the path of the key file of the line's host
C24_AtMostOneAuthClause ==
  \A k \in 1..Len(InventoryHostLines) :
    LET line == InventoryHostLines[k].host
    IN  /\ Len(AuthClauses(line)) <= 1
        /\ \A i \in 1..Len(AuthClauses(line)) :
             AuthClauses(line)[i][1] = "ansible_ssh_private_key_file"
               => AuthClauses(line)[i][2] = KeyPath(ClauseValue(line, "ansible_host"))

\* the ansible_user line of the [all:vars] block of the inventory written
SharedLoginUser ==
  SelectSeq(inventoryContent,
            LAMBDA l : "var" \in DOMAIN l /\ l.var[1] = "ansible_user")[1].var[2]

\* the servers that specify the login user their host line is written with
WithLoginUser == SelectSeq(servers, LAMBDA sv : Opt(sv, "ssh_user", "") # "")

\* C25: the [all:vars] block of the inventory written sets ansible_user to
\* the login user of the first server that specifies one, and to ubuntu
\* when no server specifies a login user.
C25_DefaultLoginUser ==
  inventoryContent # <<>> =>
    SharedLoginUser = IF WithLoginUser = <<>> THEN "ubuntu" ELSE WithLoginUser[1].ssh_user

\* the block takes the user from the field ansible_user of the servers, a
\* field the host lines are not written from
C25_DefaultFromAnsibleUserField ==
  inventoryContent # <<>> =>
    LET with == SelectSeq(servers, LAMBDA sv : Opt(sv, "ansible_user", "") # "")
    IN  SharedLoginUser = IF with = <<>> THEN "ubuntu" ELSE with[1].ansible_user

\* the credentials object of a run called with onOutput once the first i
\* chunks of this run's stdout have arrived
RECURSIVE CredentialsWithOnOutput(_)
CredentialsWithOnOutput(i) ==
  IF i = 0 THEN InitialCredentials(runService)
  ELSE HandleStdout([currentTask |-> <<>>, credentials |-> CredentialsWithOnOutput(i - 1),
                     output |-> <<>>],
                    SubSeq(content, ChunkStart(i) + 1, CutSeq[i]), runService, TRUE).credentials

\* C26: the credentials a request delivers once its child has exited are
\* the credentials executePlaybook returns when called with onOutput on the
\* same chunks of stdout, whether or not this request passed onOutput.
C26_CredentialsWithoutOnOutput ==
  (pc = "done" /\ Exited) =>
    Delivered.credentials
      = ApplyDefaults(CredentialsWithOnOutput(Cardinality(cuts)), runService)

\* in streaming mode they are
C26_CredentialsWithOnOutput ==
  (pc = "done" /\ Exited /\ mode = "stream") =>
    Delivered.credentials
      = ApplyDefaults(CredentialsWithOnOutput(Cardinality(cuts)), runService)

\* the terminal result of a streaming run has been sent
CompleteSent == written # <<>> /\ written[Len(written)].type = "complete"

LinesAt(address) ==
  Cardinality({k \in 1..Len(InventoryHostLines) : Address(InventoryHostLines[k].host) = address})

ServersAt(address) ==
  Cardinality({i \in 1..Len(servers) : ServerAddress(servers[i]) = address})

Grouped == Generated /\ playbookType \in {MYSQL, MONGODB, KUBERNETES}

\* C28: in the inventory of a mysql, mongodb or kubernetes run every server
\* of the request has its host line in one role group and in one only:
\* there are as many host lines for an address as servers with it.
C28_EveryHostInOneGroup ==
  Grouped => \A i \in 1..Len(servers) :
               LinesAt(ServerAddress(servers[i])) = ServersAt(ServerAddress(servers[i]))

\* no server is listed twice; one is listed if its role is a role of the
\* run kind
C28_NoHostListedTwice ==
  Grouped =>
    /\ \A i \in 1..Len(servers) :
         LinesAt(ServerAddress(servers[i])) <= ServersAt(ServerAddress(servers[i]))
    /\ Len(InventoryHostLines)
         = Len(WithRole(servers,
                        IF playbookType = MYSQL THEN {"primary", "", "secondary"}
                        ELSE IF playbookType = MONGODB
                        THEN {"primary", "", "secondary", "arbiter"}
                        ELSE {"master", "k8s-master", "worker", "k8s-worker"}))

\* the child of request r has started and the other request has done
\* nothing yet
StartedAlone(r) == runPc[r] = "running" /\ \A q \in Runs \ {r} : runPc[q] = "start"

\* C29: when the child of a request starts, the key file of every
\* key-authenticated server of the request, the file its host line refers
\* to, holds the key of that server.
C29_OwnKeyAtStart ==
  \A r \in Runs :
    StartedAlone(r) =>
      \A i \in 1..Len(runServers[r]) :
        UsesKey(runServers[r][i]) =>
          /\ KeyPath(runServers[r][i].hostname) \in DOMAIN store
          /\ store[KeyPath(runServers[r][i].hostname)] = runServers[r][i].ssh_key

\* the key file holds the key of the last server of the list that has its
\* path, and so the own key of a server that shares its path with no other
C29_LastKeyOfPath ==
  \A r \in Runs :
    StartedAlone(r) =>
      \A i \in 1..Len(runServers[r]) :
        (/\ UsesKey(runServers[r][i])
         /\ \A j \in (i + 1)..Len(runServers[r]) :
              UsesKey(runServers[r][j])
                => KeyPath(runServers[r][j].hostname) # KeyPath(runServers[r][i].hostname))
          => /\ KeyPath(runServers[r][i].hostname) \in DOMAIN store
             /\ store[KeyPath(runServers[r][i].hostname)] = runServers[r][i].ssh_key

\* the key files on disk
KeyFilesLeft == files \cap Range(KeyPaths(servers))

\* C30: a request during which generateInventory failed is done with no
\* key file left on disk, in streaming and in non-streaming mode.
C30_NoKeyFileAfterFailedGenerate ==
  (pc = "done" /\ GenerateFails(servers, faults)) => KeyFilesLeft = {}

\* a request whose inventory was generated, and whose inventory file could
\* be removed, is done with no key file left on disk
C30_NoKeyFileAfterRun ==
  (pc = "done" /\ ~GenerateFails(servers, faults) /\ "unlink" \notin faults)
    => KeyFilesLeft = {}

====
